---- MODULE Spec2Model ----
(***************************************************************************)
(* CinemaBot2: an IRC bot that keeps a schedule of movie showtimes.        *)
(*                                                                         *)
(* src/main.go holds two builds of the bot.  The database build (lines     *)
(* 1-914, command prefix ".") keeps the showtimes in an SQLite table whose *)
(* datetime column is RFC 3339 text; the in-memory build (lines 916-1584,  *)
(* command prefix ";") keeps them in a Go map.  The variable bot says      *)
(* which build is running; it never changes.                               *)
(*                                                                         *)
(* Text is modelled by TLA+ strings, character by character.  Instants and *)
(* durations are counted in ticks of a quarter of a second, the instant 0  *)
(* being 2030-01-01 00:00:00 UTC.                                          *)
(***************************************************************************)
EXTENDS Integers, Sequences, FiniteSets, TLC

VARIABLES
    bot,        \* "db" or "mem": the build that is running
    showtimes,  \* in-memory build: bot.showtimes, a map id -> Showtime
    table,      \* database build: the rows of table showtimes, keyed by id
    now,        \* the reading of time.Now()
    ev,         \* the IRC event handled by the latest step (NoEvent: none)
    out,        \* the lines the latest step sent with conn.Privmsg, in order
    input,      \* the message of a call of parseArgs that is followed turn by turn
    loop,       \* that call's variables: i, args, current, inQuotes, escaped
    returned,   \* what that call returned (done: whether it has returned)
    span,       \* the duration given to the formatters when they are followed alone
    formatted,  \* what formatTimeUntil and formatTimeSince returned for it
    mu,         \* the handler lock: 0 when unlocked, or the callback that locked it
    handlers,   \* the PRIVMSG callbacks running at once, when they are followed
                \* step by step: where each is, its event, what it sent
    fault       \* the storage call that failed in the latest step ("": none)

botVars == <<bot, showtimes, table, now, ev, out>>

parseVars == <<input, loop, returned>>

formatVars == <<span, formatted>>

lockVars == <<mu, handlers>>

vars == <<botVars, parseVars, formatVars, lockVars, fault>>

(***************************************************************************)
(* Strings (package strings, strconv, fmt)                                 *)
(***************************************************************************)
Ch(s, i) == SubSeq(s, i, i)

HasPrefix(s, prefix) ==
    /\ Len(s) >= Len(prefix)
    /\ SubSeq(s, 1, Len(prefix)) = prefix

TrimPrefix(s, prefix) ==
    IF HasPrefix(s, prefix) THEN SubSeq(s, Len(prefix) + 1, Len(s)) ELSE s

RECURSIVE TrimLeft(_, _)
TrimLeft(s, c) ==
    IF Len(s) > 0 /\ Ch(s, 1) = c THEN TrimLeft(SubSeq(s, 2, Len(s)), c) ELSE s

RECURSIVE TrimRight(_, _)
TrimRight(s, c) ==
    IF Len(s) > 0 /\ Ch(s, Len(s)) = c
    THEN TrimRight(SubSeq(s, 1, Len(s) - 1), c)
    ELSE s

\* strings.Trim(s, cutset) for a cutset of one character
Trim(s, c) == TrimRight(TrimLeft(s, c), c)

\* the value of a "-name=value" argument: strings.Trim(strings.TrimPrefix(part, prefix), "\"")
ArgValue(part, prefix) == Trim(TrimPrefix(part, prefix), "\"")

Digits == <<"0", "1", "2", "3", "4", "5", "6", "7", "8", "9">>

IsDigit(c) == \E d \in 1..10 : Digits[d] = c

DigitVal(c) == (CHOOSE d \in 1..10 : Digits[d] = c) - 1

RECURSIVE AllDigits(_)
AllDigits(s) ==
    Len(s) = 0 \/ (IsDigit(Ch(s, 1)) /\ AllDigits(SubSeq(s, 2, Len(s))))

RECURSIVE DigitsVal(_, _)
DigitsVal(s, acc) ==
    IF Len(s) = 0 THEN acc
    ELSE DigitsVal(SubSeq(s, 2, Len(s)), acc * 10 + DigitVal(Ch(s, 1)))

\* strconv.Atoi: an optional sign and then one or more decimal digits
Atoi(s) ==
    LET signed == Len(s) > 0 /\ Ch(s, 1) \in {"+", "-"}
        body   == IF signed THEN SubSeq(s, 2, Len(s)) ELSE s
    IN  IF Len(body) = 0 \/ ~AllDigits(body)
        THEN [err |-> TRUE, val |-> 0]
        ELSE [err |-> FALSE,
              val |-> IF signed /\ Ch(s, 1) = "-"
                      THEN 0 - DigitsVal(body, 0) ELSE DigitsVal(body, 0)]

\* fmt's %d of a non-negative int
RECURSIVE Itoa(_)
Itoa(n) == IF n < 10 THEN Digits[n + 1] ELSE Itoa(n \div 10) \o Digits[(n % 10) + 1]

Pad2(n) == IF n < 10 THEN "0" \o Itoa(n) ELSE Itoa(n)

Pad4(n) ==
    IF n < 10 THEN "000" \o Itoa(n)
    ELSE IF n < 100 THEN "00" \o Itoa(n)
    ELSE IF n < 1000 THEN "0" \o Itoa(n)
    ELSE Itoa(n)

\* the byte order of the characters that occur in RFC 3339 text
ByteOrder == <<"-", "0", "1", "2", "3", "4", "5", "6", "7", "8", "9", ":", "T", "Z">>

Byte(c) == CHOOSE k \in 1..Len(ByteOrder) : ByteOrder[k] = c

\* SQLite's comparison of two TEXT values (memcmp, the shorter first on a tie)
RECURSIVE TextLessFrom(_, _, _)
TextLessFrom(a, b, i) ==
    IF i > Len(b) THEN FALSE
    ELSE IF i > Len(a) THEN TRUE
    ELSE IF Ch(a, i) # Ch(b, i) THEN Byte(Ch(a, i)) < Byte(Ch(b, i))
    ELSE TextLessFrom(a, b, i + 1)

TextLess(a, b) == TextLessFrom(a, b, 1)

TextLeq(a, b) == a = b \/ TextLess(a, b)

(***************************************************************************)
(* parseArgs: the command tokenizer (the same code in both builds)         *)
(***************************************************************************)
\* The loop's variables are held in a record st: i, the place of char in the
\* message, and args, current, inQuotes and escaped.  In the operators below
\* nx is st after the loop has moved to the next character.

\* case '\\'
caseBackslash(st, nx, char) ==
    IF st.escaped
    THEN [nx EXCEPT !.current = @ \o char, !.escaped = FALSE]
    ELSE [nx EXCEPT !.escaped = TRUE]

\* faulty variants of caseQuote: one does not add an empty token at the end
\* of a quoted section (C15 must fail with it), one ends a token at the
\* opening quote too (C18 must fail with it)
caseQuoteSkipsEmpty(st, nx, char) ==
    IF st.escaped
    THEN [nx EXCEPT !.current = @ \o char, !.escaped = FALSE]
    ELSE IF st.inQuotes
    THEN IF Len(st.current) > 0
         THEN [nx EXCEPT !.args = Append(@, st.current), !.current = "",
                         !.inQuotes = FALSE]
         ELSE [nx EXCEPT !.inQuotes = FALSE]
    ELSE [nx EXCEPT !.inQuotes = TRUE]

caseQuoteOpeningFlushes(st, nx, char) ==
    IF st.escaped
    THEN [nx EXCEPT !.current = @ \o char, !.escaped = FALSE]
    ELSE IF st.inQuotes \/ Len(st.current) > 0
    THEN [nx EXCEPT !.args = Append(@, st.current), !.current = "",
                    !.inQuotes = ~st.inQuotes]
    ELSE [nx EXCEPT !.inQuotes = TRUE]

\* case '"'
caseQuote(st, nx, char) ==
    IF st.escaped
    THEN [nx EXCEPT !.current = @ \o char, !.escaped = FALSE]
    ELSE IF st.inQuotes
    THEN \* End of quoted section: always add the current token, even if empty
         [nx EXCEPT !.args = Append(@, st.current), !.current = "",
                    !.inQuotes = FALSE]
    ELSE [nx EXCEPT !.inQuotes = TRUE]

\* a faulty variant of caseSpaceTab, which ends a token at every separator,
\* also when nothing was collected: C14 must fail with it
caseSpaceTabAlwaysFlushes(st, nx, char) ==
    IF st.escaped
    THEN [nx EXCEPT !.current = @ \o char, !.escaped = FALSE]
    ELSE IF st.inQuotes
    THEN [nx EXCEPT !.current = @ \o char]
    ELSE [nx EXCEPT !.args = Append(@, st.current), !.current = ""]

\* case ' ', '\t'
caseSpaceTab(st, nx, char) ==
    IF st.escaped
    THEN \* Handle escaped spaces and tabs
         [nx EXCEPT !.current = @ \o char, !.escaped = FALSE]
    ELSE IF st.inQuotes
    THEN [nx EXCEPT !.current = @ \o char]
    ELSE \* Outside quotes: this is a separator
         IF Len(st.current) > 0
         THEN [nx EXCEPT !.args = Append(@, st.current), !.current = ""]
         ELSE nx

\* a faulty variant of caseLetter, which adds the letter itself after a
\* backslash: C16 must fail with it
caseLetterUnconverted(st, nx, char, control) ==
    [nx EXCEPT !.current = @ \o char, !.escaped = FALSE]

\* case 't', case 'n', case 'r': control is the character that the letter
\* stands for after a backslash
caseLetter(st, nx, char, control) ==
    IF st.escaped
    THEN [nx EXCEPT !.current = @ \o control, !.escaped = FALSE]
    ELSE [nx EXCEPT !.current = @ \o char]

\* a faulty variant of caseDefault, which drops the backslash: C17 must fail
\* with it
caseDefaultDropsBackslash(st, nx, char) ==
    [nx EXCEPT !.current = @ \o char, !.escaped = FALSE]

\* default
caseDefault(st, nx, char) ==
    IF st.escaped
    THEN \* keep the backslash
         [nx EXCEPT !.current = @ \o "\\" \o char, !.escaped = FALSE]
    ELSE [nx EXCEPT !.current = @ \o char]

\* one turn of the loop over the characters of the message
parseChar(st, message) ==
    LET char == Ch(message, st.i)
        nx   == [st EXCEPT !.i = @ + 1]
    IN  CASE char = "\\" -> caseBackslash(st, nx, char)
          [] char = "\"" -> caseQuote(st, nx, char)
          [] char \in {" ", "\t"} -> caseSpaceTab(st, nx, char)
          [] char = "t" -> caseLetter(st, nx, char, "\t")
          [] char = "n" -> caseLetter(st, nx, char, "\n")
          [] char = "r" -> caseLetter(st, nx, char, "\r")
          [] OTHER -> caseDefault(st, nx, char)

\* up to n turns of the loop, as two runs of half as many; the loop ends when
\* no character is left
RECURSIVE parseLoop(_, _, _)
parseLoop(st, message, n) ==
    IF st.i > Len(message) \/ n = 0 THEN st
    ELSE IF n = 1 THEN parseChar(st, message)
    ELSE parseLoop(parseLoop(st, message, n \div 2), message, n - n \div 2)

\* the loop's variables before the first character
parseStart ==
    [i |-> 1, args |-> <<>>, current |-> "", inQuotes |-> FALSE,
     escaped |-> FALSE]

\* faulty variants of parseEnd: one gives up the text of a quote that was
\* never closed (C19 must fail with it), one keeps a backslash that ends the
\* message (C20 must fail with it)
parseEndClosedOnly(st) ==
    IF Len(st.current) > 0 /\ ~st.inQuotes THEN Append(st.args, st.current)
    ELSE st.args

parseEndKeepsBackslash(st) ==
    IF st.escaped THEN Append(st.args, st.current \o "\\")
    ELSE IF Len(st.current) > 0 THEN Append(st.args, st.current)
    ELSE st.args

\* after the loop: Handle any remaining content
parseEnd(st) ==
    IF Len(st.current) > 0 THEN Append(st.args, st.current) ELSE st.args

parseArgs(message) == parseEnd(parseLoop(parseStart, message, Len(message)))

(***************************************************************************)
(* Time (package time): instants and durations in ticks                    *)
(***************************************************************************)
TicksPerSecond == 4

TicksPerDay == 86400 * TicksPerSecond

\* days from 1970-01-01 to the first day of a month, plus day - 1: a day past
\* the end of the month runs on into the next one, as in time.Date
DaysOfEra(y, mp, day) ==
    (y \div 400) * 146097
        + (y % 400) * 365 + (y % 400) \div 4 - (y % 400) \div 100
        + (153 * mp + 2) \div 5 + day - 1 - 719468

DaysFromCivil(year, month, day) ==
    DaysOfEra(IF month <= 2 THEN year - 1 ELSE year,
              IF month > 2 THEN month - 3 ELSE month + 9, day)

EpochDays == DaysFromCivil(2030, 1, 1)

\* the civil date of a day number, from the day of the 400-year era
CivilOfEra(era, yoe, doy, mp) ==
    [year  |-> yoe + era * 400 + (IF mp < 10 THEN 0 ELSE 1),
     month |-> IF mp < 10 THEN mp + 3 ELSE mp - 9,
     day   |-> doy - (153 * mp + 2) \div 5 + 1]

CivilOfYear(era, yoe, doy) == CivilOfEra(era, yoe, doy, (5 * doy + 2) \div 153)

CivilOfDay(era, doe, yoe) ==
    CivilOfYear(era, yoe, doe - (365 * yoe + yoe \div 4 - yoe \div 100))

CivilFromEraDay(era, doe) ==
    CivilOfDay(era, doe,
               (doe - doe \div 1460 + doe \div 36524 - doe \div 146096) \div 365)

CivilFromDays(days) ==
    CivilFromEraDay((days + 719468) \div 146097, (days + 719468) % 146097)

\* time.Date(year, month, day, hour, min, sec, 0, time.UTC)
Date(year, month, day, hour, min, sec) ==
    (DaysFromCivil(year, month, day) - EpochDays) * TicksPerDay
        + (hour * 3600 + min * 60 + sec) * TicksPerSecond

ClockFields(civil, sod) ==
    [year |-> civil.year, month |-> civil.month, day |-> civil.day,
     hour |-> sod \div 3600, min |-> (sod % 3600) \div 60, sec |-> sod % 60]

\* the calendar fields of an instant: t.Year(), t.Month(), t.Day(), t.Clock()
Fields(t) ==
    ClockFields(CivilFromDays((t \div TicksPerSecond) \div 86400 + EpochDays),
                (t \div TicksPerSecond) % 86400)

\* the layout "2006-01-02?15:04:05" with the text sep for ? and then zone
FormatFields(f, sep, zone) ==
    Pad4(f.year) \o "-" \o Pad2(f.month) \o "-" \o Pad2(f.day) \o sep
        \o Pad2(f.hour) \o ":" \o Pad2(f.min) \o ":" \o Pad2(f.sec) \o zone

\* t.Format(time.RFC3339) of a UTC time: the fraction of a second is dropped
FormatRFC3339(t) == FormatFields(Fields(t), "T", "Z")

\* a faulty variant of FormatDisplay, without the name of the zone: C23 must
\* fail with it
FormatDisplayNoZone(t) == FormatFields(Fields(t), " ", "")

\* t.Format("2006-01-02 15:04:05 MST") of a UTC time
FormatDisplay(t) == FormatFields(Fields(t), " ", " UTC")

IsLeap(year) == year % 4 = 0 /\ (year % 100 # 0 \/ year % 400 = 0)

DaysIn(month, year) ==
    IF month = 2 THEN (IF IsLeap(year) THEN 29 ELSE 28)
    ELSE IF month \in {4, 6, 9, 11} THEN 30 ELSE 31

\* time.Parse: a layout is a sequence of elements, each a reference field
\* ("2006", "01", "02", "15", "04", "05") or literal text
RECURSIVE parseLayout(_, _, _, _)
parseLayout(layout, k, value, f) ==
    IF k > Len(layout)
    THEN IF Len(value) > 0                              \* extra text
         THEN [err |-> TRUE, t |-> 0]
         ELSE IF \/ f.month < 1 \/ f.month > 12
                 \/ f.hour >= 24 \/ f.min >= 60 \/ f.sec >= 60
                 \/ f.day < 1 \/ f.day > DaysIn(f.month, f.year)
         THEN [err |-> TRUE, t |-> 0]                   \* out of range
         ELSE [err |-> FALSE,
               t   |-> Date(f.year, f.month, f.day, f.hour, f.min, f.sec)]
    ELSE
    LET el   == layout[k]
        two  == Len(value) >= 2 /\ IsDigit(Ch(value, 1)) /\ IsDigit(Ch(value, 2))
        rest(n) == SubSeq(value, n + 1, Len(value))
        num(n)  == DigitsVal(SubSeq(value, 1, n), 0)
    IN  CASE el = "2006" ->
                IF Len(value) >= 4 /\ AllDigits(SubSeq(value, 1, 4))
                THEN parseLayout(layout, k + 1, rest(4), [f EXCEPT !.year = num(4)])
                ELSE [err |-> TRUE, t |-> 0]
          [] el \in {"01", "02", "04", "05"} ->         \* exactly two digits
                IF two
                THEN parseLayout(layout, k + 1, rest(2),
                        CASE el = "01" -> [f EXCEPT !.month = num(2)]
                          [] el = "02" -> [f EXCEPT !.day = num(2)]
                          [] el = "04" -> [f EXCEPT !.min = num(2)]
                          [] el = "05" -> [f EXCEPT !.sec = num(2)])
                ELSE [err |-> TRUE, t |-> 0]
          [] el = "15" ->                               \* one or two digits
                IF two
                THEN parseLayout(layout, k + 1, rest(2), [f EXCEPT !.hour = num(2)])
                ELSE IF Len(value) >= 1 /\ IsDigit(Ch(value, 1))
                THEN parseLayout(layout, k + 1, rest(1), [f EXCEPT !.hour = num(1)])
                ELSE [err |-> TRUE, t |-> 0]
          [] OTHER ->
                IF HasPrefix(value, el)
                THEN parseLayout(layout, k + 1, TrimPrefix(value, el), f)
                ELSE [err |-> TRUE, t |-> 0]

Parse(layout, value) ==
    parseLayout(layout, 1, value,
                [year |-> 0, month |-> 1, day |-> 1, hour |-> 0, min |-> 0, sec |-> 0])

LayoutRFC3339 == <<"2006", "-", "01", "-", "02", "T", "15", ":", "04", ":", "05", "Z">>

\* the six layouts createShowtime tries on -date, in its order
formats == <<
    <<"2006", "-", "01", "-", "02", " ", "15", ":", "04", ":", "05">>,
    <<"2006", "-", "01", "-", "02", " ", "15", ":", "04">>,
    <<"01", "-", "02", "-", "2006", " ", "15", ":", "04", ":", "05">>,
    <<"01", "-", "02", "-", "2006", " ", "15", ":", "04">>,
    <<"2006", "/", "01", "/", "02", " ", "15", ":", "04", ":", "05">>,
    <<"2006", "/", "01", "/", "02", " ", "15", ":", "04">> >>

\* the loop over formats: the first layout that parses wins
RECURSIVE parseDate(_, _)
parseDate(date, k) ==
    IF k > Len(formats) THEN [err |-> TRUE, t |-> 0]
    ELSE LET r == Parse(formats[k], date)
         IN  IF r.err THEN parseDate(date, k + 1) ELSE r

\* duration.Round(time.Second).Seconds(): to the nearest second, halves away
\* from zero
\* a faulty variant of RoundSeconds, which cuts the fraction of a second off:
\* C22 must fail with it
RoundSecondsDown(duration) ==
    IF duration >= 0 THEN duration \div TicksPerSecond
    ELSE 0 - ((0 - duration) \div TicksPerSecond)

RoundSeconds(duration) ==
    IF duration >= 0
    THEN (2 * duration + TicksPerSecond) \div (2 * TicksPerSecond)
    ELSE 0 - ((2 * (0 - duration) + TicksPerSecond) \div (2 * TicksPerSecond))

(***************************************************************************)
(* The duration formatter (the same code in both builds)                   *)
(***************************************************************************)
Join2(parts) ==
    IF Len(parts) = 0 THEN ""
    ELSE IF Len(parts) = 1 THEN parts[1]
    ELSE IF Len(parts) = 2 THEN parts[1] \o ", " \o parts[2]
    ELSE parts[1] \o ", " \o parts[2] \o ", " \o parts[3]

\* a faulty variant of durationParts, which shows the seconds of a duration
\* of an hour or more too: C21 must fail with it
durationPartsAllSeconds(totalSeconds) ==
    LET hours   == totalSeconds \div 3600
        minutes == (totalSeconds % 3600) \div 60
        seconds == totalSeconds % 60
        h == IF hours > 0
             THEN <<IF hours = 1 THEN "1 hour" ELSE Itoa(hours) \o " hours">>
             ELSE <<>>
        m == IF minutes > 0
             THEN <<IF minutes = 1 THEN "1 minute" ELSE Itoa(minutes) \o " minutes">>
             ELSE <<>>
        s == IF seconds > 0
             THEN <<IF seconds = 1 THEN "1 second" ELSE Itoa(seconds) \o " seconds">>
             ELSE <<>>
    IN  h \o m \o s

\* the clauses both formatters build for a duration of 60 seconds or more
durationParts(totalSeconds) ==
    LET hours   == totalSeconds \div 3600
        minutes == (totalSeconds % 3600) \div 60
        seconds == totalSeconds % 60
        h == IF hours > 0
             THEN <<IF hours = 1 THEN "1 hour" ELSE Itoa(hours) \o " hours">>
             ELSE <<>>
        m == IF minutes > 0
             THEN <<IF minutes = 1 THEN "1 minute" ELSE Itoa(minutes) \o " minutes">>
             ELSE <<>>
        s == IF seconds > 0 /\ hours = 0
             THEN <<IF seconds = 1 THEN "1 second" ELSE Itoa(seconds) \o " seconds">>
             ELSE <<>>
    IN  h \o m \o s

formatTimeUntil(duration) ==
    LET totalSeconds == RoundSeconds(duration)
    IN  IF totalSeconds <= 0 THEN "Now"
        ELSE IF totalSeconds < 60
        THEN (IF totalSeconds = 1 THEN "In 1 second"
              ELSE "In " \o Itoa(totalSeconds) \o " seconds")
        ELSE "In " \o Join2(durationParts(totalSeconds))

formatTimeSince(duration) ==
    LET totalSeconds == RoundSeconds(duration)
    IN  IF totalSeconds <= 0 THEN "Just started"
        ELSE IF totalSeconds < 60
        THEN (IF totalSeconds = 1 THEN "1 second"
              ELSE Itoa(totalSeconds) \o " seconds")
        ELSE Join2(durationParts(totalSeconds))

(***************************************************************************)
(* Configuration (bot_config.json) and the events the transport delivers   *)
(***************************************************************************)
Channel == "#stopdrinkingcinema"

BotNick == "sdcinemabot"

\* config.AuthorizedNicks: the nicks mapped to true
AuthorizedNicks == {"alice", "bob"}

\* the literal each build's commands begin with
Prefix == IF bot = "db" THEN "." ELSE ";"

NoEvent == [message |-> "", nick |-> "", host |-> "", target |-> ""]

\* a handler's result: the lines it sent and the store it leaves
Result(lines, st, tb) == [out |-> lines, showtimes |-> st, table |-> tb]

Reply(line) == Result(<<line>>, showtimes, table)

\* the showtimes in an order of iteration, as a sequence of map keys
Perms(S) ==
    {p \in [1..Cardinality(S) -> S] : \A i, j \in DOMAIN p : p[i] = p[j] => i = j}

Remove(f, k) == [x \in DOMAIN f \ {k} |-> f[x]]

Put(f, k, v) == [x \in DOMAIN f \cup {k} |-> IF x = k THEN v ELSE f[x]]

(***************************************************************************)
(* The store                                                               *)
(***************************************************************************)
\* database build: SELECT COUNT(*) FROM showtimes WHERE id = ?
showtimeExists(id) == id \in DOMAIN table

\* database build: INSERT INTO showtimes; the datetime is written as RFC 3339
\* text (created_at, which nothing reads back into a reply, is left out)
insertShowtime(showtime) ==
    Put(table, showtime.ID,
        [id         |-> showtime.ID,
         title      |-> showtime.Title,
         datetime   |-> FormatRFC3339(showtime.DateTime),
         created_by |-> showtime.CreatedBy])

\* database build: the row scan of the queries: a row's columns become a
\* Showtime, its datetime parsed back with time.Parse(time.RFC3339, ...)
scanRow(row) ==
    [ID        |-> row.id,
     Title     |-> row.title,
     DateTime  |-> Parse(LayoutRFC3339, row.datetime).t,
     CreatedBy |-> row.created_by]

\* database build: SELECT ... WHERE id = ?
getShowtimeByID(id) == scanRow(table[id])

\* database build: DELETE FROM showtimes WHERE id = ?
deleteShowtimeByID(id) == Remove(table, id)

(***************************************************************************)
(* createShowtime                                                          *)
(***************************************************************************)
NoFields ==
    [id |-> "", title |-> "", date |-> "", hours |-> 0, minutes |-> 0,
     seconds |-> 0, month |-> 0, day |-> 0, year |-> 0, err |-> ""]

\* a faulty variant of numField, without the range check: C28 must fail with
\* it
numFieldAnyNumber(f, name, str, lo, hi, complaint) ==
    LET n == Atoi(str)
    IN  IF n.err THEN [f EXCEPT !.err = complaint]
        ELSE [f EXCEPT ![name] = n.val]

\* one numeric option: strconv.Atoi, then the range check
numField(f, name, str, lo, hi, complaint) ==
    LET n == Atoi(str)
    IN  IF n.err \/ n.val < lo \/ n.val > hi
        THEN [f EXCEPT !.err = complaint]
        ELSE [f EXCEPT ![name] = n.val]

\* the loop over args[2:]: it returns at the first invalid numeric option
RECURSIVE parseCreateArgs(_, _, _)
parseCreateArgs(args, k, f) ==
    IF k > Len(args) \/ f.err # "" THEN f
    ELSE
    LET part == args[k]
        g == CASE HasPrefix(part, "-id=") ->
                    [f EXCEPT !.id = ArgValue(part, "-id=")]
               [] HasPrefix(part, "-title=") ->
                    [f EXCEPT !.title = ArgValue(part, "-title=")]
               [] HasPrefix(part, "-hour=") \/ HasPrefix(part, "-hours=") ->
                    numField(f, "hours",
                        IF HasPrefix(part, "-hour=") THEN ArgValue(part, "-hour=")
                        ELSE ArgValue(part, "-hours="),
                        0, 23, "Invalid hour value (must be 0-23).")
               [] HasPrefix(part, "-minute=") \/ HasPrefix(part, "-minutes=") ->
                    numField(f, "minutes",
                        IF HasPrefix(part, "-minute=") THEN ArgValue(part, "-minute=")
                        ELSE ArgValue(part, "-minutes="),
                        0, 59, "Invalid minute value (must be 0-59).")
               [] \/ HasPrefix(part, "-second=") \/ HasPrefix(part, "-seconds=")
                  \/ HasPrefix(part, "-sec=") ->
                    numField(f, "seconds",
                        IF HasPrefix(part, "-second=") THEN ArgValue(part, "-second=")
                        ELSE IF HasPrefix(part, "-seconds=")
                        THEN ArgValue(part, "-seconds=")
                        ELSE ArgValue(part, "-sec="),
                        0, 59, "Invalid second value (must be 0-59).")
               [] HasPrefix(part, "-month=") ->
                    numField(f, "month", ArgValue(part, "-month="), 1, 12,
                             "Invalid month value (must be 1-12).")
               [] HasPrefix(part, "-day=") ->
                    numField(f, "day", ArgValue(part, "-day="), 1, 31,
                             "Invalid day value (must be 1-31).")
               [] HasPrefix(part, "-year=") ->
                    numField(f, "year", ArgValue(part, "-year="), 1900, 2100,
                             "Invalid year value (must be 1900-2100).")
               [] HasPrefix(part, "-date=") ->
                    [f EXCEPT !.date = ArgValue(part, "-date=")]
               [] OTHER -> f
    IN  parseCreateArgs(args, k + 1, g)

\* faulty variants of createDatetime: one takes the date that time.Date
\* makes of the fields as it is (C29 must fail with it), one takes the
\* time of day of an absent hour, minute or second from the clock (C30 must
\* fail with it)
createDatetimeNormalized(f) ==
    IF f.date # ""
    THEN LET r == parseDate(f.date, 1)
         IN  IF r.err
             THEN [err |-> "Invalid date format. Supported formats: 2006-01-02 15:04:05, 01-02-2006 15:04:05, 2006/01/02 15:04:05",
                   t |-> 0]
             ELSE [err |-> "", t |-> r.t]
    ELSE LET today == Fields(now)
             year  == IF f.year = 0 THEN today.year ELSE f.year
             month == IF f.month = 0 THEN today.month ELSE f.month
             day   == IF f.day = 0 THEN today.day ELSE f.day
         IN  [err |-> "",
              t |-> Date(year, month, day, f.hours, f.minutes, f.seconds)]

createDatetimeFromClock(f) ==
    IF f.date # ""
    THEN LET r == parseDate(f.date, 1)
         IN  IF r.err
             THEN [err |-> "Invalid date format. Supported formats: 2006-01-02 15:04:05, 01-02-2006 15:04:05, 2006/01/02 15:04:05",
                   t |-> 0]
             ELSE [err |-> "", t |-> r.t]
    ELSE LET today == Fields(now)
             year  == IF f.year = 0 THEN today.year ELSE f.year
             month == IF f.month = 0 THEN today.month ELSE f.month
             day   == IF f.day = 0 THEN today.day ELSE f.day
             datetime == Date(year, month, day,
                              IF f.hours = 0 THEN today.hour ELSE f.hours,
                              IF f.minutes = 0 THEN today.min ELSE f.minutes,
                              IF f.seconds = 0 THEN today.sec ELSE f.seconds)
             got   == Fields(datetime)
         IN  IF got.year # year \/ got.month # month \/ got.day # day
             THEN [err |-> "Invalid date (check month/day combination and leap year).",
                   t |-> 0]
             ELSE [err |-> "", t |-> datetime]

\* the datetime of the new showtime: [err |-> a complaint or "", t |-> instant]
createDatetime(f) ==
    IF f.date # ""
    THEN LET r == parseDate(f.date, 1)
         IN  IF r.err
             THEN [err |-> "Invalid date format. Supported formats: 2006-01-02 15:04:05, 01-02-2006 15:04:05, 2006/01/02 15:04:05",
                   t |-> 0]
             ELSE [err |-> "", t |-> r.t]
    ELSE LET today == Fields(now)
             year  == IF f.year = 0 THEN today.year ELSE f.year
             month == IF f.month = 0 THEN today.month ELSE f.month
             day   == IF f.day = 0 THEN today.day ELSE f.day
             datetime == Date(year, month, day, f.hours, f.minutes, f.seconds)
             got   == Fields(datetime)
         IN  IF got.year # year \/ got.month # month \/ got.day # day
             THEN [err |-> "Invalid date (check month/day combination and leap year).",
                   t |-> 0]
             ELSE [err |-> "", t |-> datetime]

\* a faulty variant of idExists, which never finds the id: C1 must fail
\* with it
idExistsNever(id) == FALSE

\* the check "ID already exists" of either build
idExists(id) == IF bot = "db" THEN showtimeExists(id) ELSE id \in DOMAIN showtimes

\* the end of createShowtime: the showtime is stored and the reply sent
storeShowtime(showtime) ==
    IF bot = "db"
    THEN Result(<<"Created showtime: [" \o showtime.ID \o "] " \o showtime.Title
                      \o " - " \o FormatDisplay(showtime.DateTime)>>,
                showtimes, insertShowtime(showtime))
    ELSE Result(<<"Created showtime: [" \o showtime.ID \o "] " \o showtime.Title
                      \o " - " \o FormatDisplay(showtime.DateTime)>>,
                Put(showtimes, showtime.ID, showtime), table)

\* createShowtime once the datetime is worked out
createAt(f, dt, nick) ==
    IF dt.err # "" THEN Reply(dt.err)
    ELSE storeShowtime([ID |-> f.id, Title |-> f.title, DateTime |-> dt.t,
                        CreatedBy |-> nick])

\* a faulty variant of createFrom, without the check of the required fields:
\* C13 must fail with it
createFromUnchecked(f, nick) ==
    IF f.err # "" THEN Reply(f.err)
    ELSE IF idExists(f.id)
    THEN Reply("Showtime with ID '" \o f.id \o "' already exists.")
    ELSE createAt(f, createDatetime(f), nick)

\* a faulty variant of createFrom, without the check that the id is new:
\* C33 must fail with it
createFromOverwriting(f, nick) ==
    IF f.err # "" THEN Reply(f.err)
    ELSE IF f.id = "" \/ f.title = ""
    THEN Reply("Required: -id=\"id\" -title=\"title\"")
    ELSE createAt(f, createDatetime(f), nick)

\* createShowtime after the loop over the arguments: the required fields,
\* then the check that the id is new, then the datetime
createFrom(f, nick) ==
    IF f.err # "" THEN Reply(f.err)
    ELSE IF f.id = "" \/ f.title = ""
    THEN Reply("Required: -id=\"id\" -title=\"title\"")
    ELSE IF idExists(f.id)
    THEN Reply("Showtime with ID '" \o f.id \o "' already exists.")
    ELSE createAt(f, createDatetime(f), nick)

createShowtime(args, nick) == createFrom(parseCreateArgs(args, 3, NoFields), nick)

(***************************************************************************)
(* deleteShowtime                                                          *)
(***************************************************************************)
\* the value of the first argument that begins with -delete=, or ""
RECURSIVE deleteId(_, _)
deleteId(args, k) ==
    IF k > Len(args) THEN ""
    ELSE IF HasPrefix(args[k], "-delete=") THEN ArgValue(args[k], "-delete=")
    ELSE deleteId(args, k + 1)

\* faulty variants of deleteShowtime, with which C2, C3 and C4 must fail: one
\* removes the showtime before it compares the creator, one has no
\* comparison, one compares the creator before it looks the id up
deleteShowtimeEarly(args, nick) ==
    LET id == deleteId(args, 1)
    IN  IF id = ""
        THEN Reply("Usage: " \o Prefix \o "showtime -delete=\"id\"")
        ELSE IF ~idExists(id)
        THEN Reply("Showtime with ID '" \o id \o "' not found.")
        ELSE Result(<<IF (IF bot = "db" THEN getShowtimeByID(id)
                          ELSE showtimes[id]).CreatedBy # nick
                      THEN "You can only delete showtimes you created."
                      ELSE "Deleted showtime: " \o id>>,
                    IF bot = "db" THEN showtimes ELSE Remove(showtimes, id),
                    IF bot = "db" THEN deleteShowtimeByID(id) ELSE table)

deleteShowtimeAnyone(args, nick) ==
    LET id == deleteId(args, 1)
    IN  IF id = ""
        THEN Reply("Usage: " \o Prefix \o "showtime -delete=\"id\"")
        ELSE IF ~idExists(id)
        THEN Reply("Showtime with ID '" \o id \o "' not found.")
        ELSE IF bot = "db"
        THEN Result(<<"Deleted showtime: " \o id>>, showtimes, deleteShowtimeByID(id))
        ELSE Result(<<"Deleted showtime: " \o id>>, Remove(showtimes, id), table)

deleteShowtimeCreatorFirst(args, nick) ==
    LET id == deleteId(args, 1)
    IN  IF id = ""
        THEN Reply("Usage: " \o Prefix \o "showtime -delete=\"id\"")
        ELSE IF ~idExists(id)
                \/ (IF bot = "db" THEN getShowtimeByID(id)
                    ELSE showtimes[id]).CreatedBy # nick
        THEN Reply("You can only delete showtimes you created.")
        ELSE IF bot = "db"
        THEN Result(<<"Deleted showtime: " \o id>>, showtimes, deleteShowtimeByID(id))
        ELSE Result(<<"Deleted showtime: " \o id>>, Remove(showtimes, id), table)

deleteShowtime(args, nick) ==
    LET id == deleteId(args, 1)
        exists == idExists(id)
        showtime == IF bot = "db" THEN getShowtimeByID(id) ELSE showtimes[id]
    IN  IF id = ""
        THEN Reply("Usage: " \o Prefix \o "showtime -delete=\"id\"")
        ELSE IF ~exists
        THEN Reply("Showtime with ID '" \o id \o "' not found.")
        ELSE IF showtime.CreatedBy # nick
        THEN Reply("You can only delete showtimes you created.")
        ELSE IF bot = "db"
        THEN Result(<<"Deleted showtime: " \o id>>, showtimes, deleteShowtimeByID(id))
        ELSE Result(<<"Deleted showtime: " \o id>>, Remove(showtimes, id), table)

(***************************************************************************)
(* listShowtimes                                                           *)
(***************************************************************************)
\* the line of one showtime in the listing
showtimeLine(showtime) ==
    "[" \o showtime.ID \o "] " \o showtime.Title \o " - "
        \o FormatDisplay(showtime.DateTime) \o " (by " \o showtime.CreatedBy \o ")"

Swap(data, i, j) ==
    [data EXCEPT ![i] = data[j], ![j] = data[i]]

\* sort.Slice of a short slice is an insertion sort; less is
\* sortedShowtimes[i].DateTime.Before(sortedShowtimes[j].DateTime)
RECURSIVE sinkShowtime(_, _)
sinkShowtime(data, j) ==
    IF j > 1 /\ data[j].DateTime < data[j - 1].DateTime
    THEN sinkShowtime(Swap(data, j, j - 1), j - 1)
    ELSE data

\* a faulty variant of sortSlice, which leaves the slice as it is: C6 must
\* fail with it
sortSliceNot(data, i) == data

RECURSIVE sortSlice(_, _)
sortSlice(data, i) ==
    IF i > Len(data) THEN data ELSE sortSlice(sinkShowtime(data, i), i + 1)

\* database build: whether the rows, taken in this order, are a result of
\* ORDER BY datetime ASC (SQL leaves the order of equal datetimes open)
OrderedByDatetime(order) ==
    \A i, j \in DOMAIN order :
        i < j => TextLeq(table[order[i]].datetime, table[order[j]].datetime)

\* database build: SELECT ... FROM showtimes ORDER BY datetime ASC
getAllShowtimes(order) == [i \in DOMAIN order |-> scanRow(table[order[i]])]

\* a faulty variant of listShowtimes, without the line before the
\* showtimes: C27 must fail with it
listShowtimesNoHeader(order) ==
    LET sortedShowtimes ==
            IF bot = "db" THEN getAllShowtimes(order)
            ELSE sortSlice([i \in DOMAIN order |-> showtimes[order[i]]], 2)
    IN  IF Len(order) = 0 THEN Reply("No showtimes scheduled.")
        ELSE Result([i \in DOMAIN order |-> showtimeLine(sortedShowtimes[i])],
                    showtimes, table)

\* order: the order in which the range over the map visits the showtimes
\* (in-memory build), or in which the query returns the rows (database build)
listShowtimes(order) ==
    LET sortedShowtimes ==
            IF bot = "db" THEN getAllShowtimes(order)
            ELSE sortSlice([i \in DOMAIN order |-> showtimes[order[i]]], 2)
    IN  IF Len(order) = 0 THEN Reply("No showtimes scheduled.")
        ELSE Result(<<"Scheduled showtimes:">>
                        \o [i \in DOMAIN order |-> showtimeLine(sortedShowtimes[i])],
                    showtimes, table)

(***************************************************************************)
(* handleNextMovieCommand                                                  *)
(***************************************************************************)
ThreeHours == 3 * 3600 * TicksPerSecond

\* database build: WHERE datetime BETWEEN ? AND ? ORDER BY datetime DESC LIMIT 1,
\* the bounds being threeHoursAgo and now as RFC 3339 text; 0 when no row
RECURSIVE getCurrentShowtime(_, _)
getCurrentShowtime(order, k) ==
    IF k = 0 THEN 0
    ELSE IF /\ TextLeq(FormatRFC3339(now - ThreeHours), table[order[k]].datetime)
            /\ TextLeq(table[order[k]].datetime, FormatRFC3339(now))
    THEN k
    ELSE getCurrentShowtime(order, k - 1)

\* database build: WHERE datetime > ? ORDER BY datetime ASC LIMIT 1; 0 when no row
RECURSIVE getNextShowtime(_, _)
getNextShowtime(order, k) ==
    IF k > Len(order) THEN 0
    ELSE IF TextLess(FormatRFC3339(now), table[order[k]].datetime) THEN k
    ELSE getNextShowtime(order, k + 1)

handleNextMovieCommandDB(order) ==
    LET c == getCurrentShowtime(order, Len(order))
        n == getNextShowtime(order, 1)
        currentShowtime == scanRow(table[order[c]])
        nextShowtime == scanRow(table[order[n]])
    IN  IF c # 0
        THEN Reply(formatTimeSince(now - currentShowtime.DateTime)
                       \o " into " \o currentShowtime.Title)
        ELSE IF n # 0
        THEN Reply(formatTimeUntil(nextShowtime.DateTime - now)
                       \o ", " \o nextShowtime.Title \o " is playing!")
        ELSE Reply("No movies scheduled!")

\* in-memory build: the loop over the map, visiting the showtimes in order
RECURSIVE scanShowtimes(_, _, _)
scanShowtimes(order, k, s) ==
    IF k > Len(order) THEN s
    ELSE
    LET showtime == showtimes[order[k]]
    IN  IF showtime.DateTime > now
        THEN LET duration == showtime.DateTime - now
             IN  IF ~s.nextShowtime \/ duration < s.shortestDuration
                 THEN scanShowtimes(order, k + 1,
                        [s EXCEPT !.nextShowtime = TRUE, !.shortestDuration = duration])
                 ELSE scanShowtimes(order, k + 1, s)
        ELSE LET duration == now - showtime.DateTime
             IN  IF ~s.currentShowtime \/ duration < s.shortestCurrentDuration
                 THEN scanShowtimes(order, k + 1,
                        [s EXCEPT !.currentShowtime = TRUE,
                                  !.shortestCurrentDuration = duration])
                 ELSE scanShowtimes(order, k + 1, s)

\* in-memory build.  nextShowtime and currentShowtime are set to &showtime, the
\* address of the one variable of the range loop (the image is built with Go
\* 1.21, src/Dockerfile line 2), so when they are not nil they both point at
\* the showtime the loop visited last.
handleNextMovieCommandMem(order) ==
    LET s == scanShowtimes(order, 1,
                [nextShowtime |-> FALSE, currentShowtime |-> FALSE,
                 shortestDuration |-> 0, shortestCurrentDuration |-> 0])
        showtime == showtimes[order[Len(order)]]
    IN  IF s.currentShowtime
        THEN Reply(formatTimeSince(s.shortestCurrentDuration)
                       \o " into " \o showtime.Title)
        ELSE IF s.nextShowtime
        THEN Reply(formatTimeUntil(s.shortestDuration)
                       \o ", " \o showtime.Title \o " is playing!")
        ELSE Reply("No movies scheduled!")

\* a faulty variant of handleNextMovieCommand, which empties the store once
\* it has replied: C36 must fail with it
handleNextMovieCommandPurging(order) ==
    Result((IF bot = "db" THEN handleNextMovieCommandDB(order)
            ELSE handleNextMovieCommandMem(order)).out,
           [id \in {} |-> id], [id \in {} |-> id])

handleNextMovieCommand(order) ==
    IF bot = "db" THEN handleNextMovieCommandDB(order)
    ELSE handleNextMovieCommandMem(order)

handleDateCommand == Reply("Current time (UTC): " \o FormatDisplay(now))

(***************************************************************************)
(* The lines that are sent                                                 *)
(***************************************************************************)
\* the lines sent to a build whose command literal begins with p
Messages(p) ==
    { p \o "showtime -list",
      p \o "showtime -list -delete=m1",
      p \o "showtime -delete",
      p \o "showtime -create -id=\"m1\" -title=\"Dune\" -date=\"2030-01-01 20:00:00\"",
      p \o "showtime -create -id=m2 -title=Heat -date=\"2030-01-01 20:00\"",
      p \o "showtime -create -id=m3 -title=Alien -hours=17",
      p \o "showtime -create -id=m1 -title=Solaris -date=\"2030/01/01 22:30:00\"",
      p \o "showtime -create -id=m1 -title=Dune -hours=99",
      p \o "showtime -create -id=m1",
      p \o "showtime -create -id=\"\" -title=Dune",
      p \o "showtime -create -id=m1 -hours=99",
      p \o "showtime -create -id=m2 -title=Heat -delete=m1",
      p \o "showtime -delete=\"m1\"",
      p \o "showtime -delete=m2",
      p \o "showtime -delete=m3",
      p \o "showtime -delete=m9",
      p \o "showtime",
      p \o "showtimes -list",
      p \o "nextmovie",
      p \o "date",
      p \o "dateXYZ",
      "hello" }

\* parseArgs of the lines above, computed once
parsedLines == [m \in Messages(".") \cup Messages(";") |-> parseArgs(m)]

\* an option of a create command: nothing when the value is absent
Option(name, value) == IF value = "" THEN "" ELSE " " \o name \o value

YearValues == {"", "2028", "2031", "1899", "2101", "x"}

MonthValues == {"", "2", "4", "12", "0", "13"}

DayValues == {"", "29", "30", "31", "0", "32"}

HourValues == {"", "20", "24", "-1"}

MinuteValues == {"", "5", "60"}

SecondValues == {"", "59", "60"}

\* create commands for m1 with every choice of the discrete fields of the
\* datetime: absent, valid, out of range, not a number
CreateMessages(p) ==
    { p \o "showtime -create -id=m1 -title=Dune"
          \o Option("-year=", year) \o Option("-month=", month)
          \o Option("-day=", day) \o Option("-hours=", hours)
          \o Option("-minutes=", minutes) \o Option("-seconds=", seconds) :
        year \in YearValues, month \in MonthValues, day \in DayValues,
        hours \in HourValues, minutes \in MinuteValues, seconds \in SecondValues }

\* parseArgs of these, computed once
parsedCreateLines ==
    [m \in CreateMessages(".") \cup CreateMessages(";") |-> parseArgs(m)]

\* args := bot.parseArgs(message)
argsOf(message) ==
    IF message \in DOMAIN parsedLines THEN parsedLines[message]
    ELSE IF message \in DOMAIN parsedCreateLines THEN parsedCreateLines[message]
    ELSE parseArgs(message)

(***************************************************************************)
(* The dispatcher                                                          *)
(***************************************************************************)
\* a faulty variant of authorizedShowtimeCommand, which does not compare the
\* host: C12 must fail with it
authorizedShowtimeCommandAnyHost(nick, host) == nick \in AuthorizedNicks

authorizedShowtimeCommand(nick, host) ==
    nick \in AuthorizedNicks /\ host = "user/" \o nick

Usage == "Usage: " \o Prefix \o "showtime -list | -create [options] | -delete=\"id\""

handleShowtimeCommand(message, nick, order) ==
    LET args == argsOf(message)
        \* any argument after the first that starts with -delete
        hasDelete == \E k \in 2..Len(args) : HasPrefix(args[k], "-delete")
    IN  IF Len(args) < 2 THEN Reply(Usage)
        ELSE IF args[2] = "-list" THEN listShowtimes(order)
        ELSE IF hasDelete THEN deleteShowtime(args, nick)
        ELSE IF args[2] = "-create" THEN createShowtime(args, nick)
        ELSE Reply(Usage)

\* the PRIVMSG callback, after the channel test and under the handler lock.
\* Its three tests are made one after the other; the three literals differ in
\* their second character, so at most one of them holds.
callback(e, order) ==
    IF HasPrefix(e.message, Prefix \o "showtime")
    THEN IF authorizedShowtimeCommand(e.nick, e.host)
         THEN handleShowtimeCommand(e.message, e.nick, order)
         ELSE Reply(e.nick \o ": You are not authorized to use this command.")
    ELSE IF HasPrefix(e.message, Prefix \o "nextmovie")
    THEN handleNextMovieCommand(order)
    ELSE IF HasPrefix(e.message, Prefix \o "date")
    THEN handleDateCommand
    ELSE Result(<<>>, showtimes, table)

(***************************************************************************)
(* Inputs: who sends the lines, the clock                                  *)
(***************************************************************************)
\* who sends: alice and bob are in authorized_nicks, eve is not
Sender(nick) == [nick |-> nick, host |-> "user/" \o nick]

\* the lines bob sends: he creates m2 only, and tries every delete
BobMessages(p) ==
    { p \o "showtime -list",
      p \o "showtime -create -id=m2 -title=Heat -date=\"2030-01-01 20:00\"",
      p \o "showtime -create -id=m2 -title=Heat -delete=m1",
      p \o "showtime -delete=\"m1\"",
      p \o "showtime -delete=m2",
      p \o "showtime -delete=m9",
      p \o "nextmovie" }

\* the lines eve sends
EveMessages(p) ==
    { p \o "showtime -list",
      p \o "showtime -create -id=m2 -title=Heat -date=\"2030-01-01 20:00\"",
      p \o "showtime -delete=\"m1\"",
      p \o "showtime -delete=m9",
      p \o "nextmovie",
      p \o "date" }

Delivered(messages, sender, target) ==
    { [message |-> m, nick |-> sender.nick, host |-> sender.host,
       target |-> target] : m \in messages }

\* the events delivered: the lines of each sender in the channel, one line
\* from an authorized nick used from another host, and one line sent to the
\* bot in private
Events ==
    Delivered(Messages(Prefix), Sender("alice"), Channel)
    \cup Delivered(BobMessages(Prefix), Sender("bob"), Channel)
    \cup Delivered(EveMessages(Prefix), Sender("eve"), Channel)
    \cup Delivered({Prefix \o "showtime -delete=\"m1\""},
                   [nick |-> "alice", host |-> "user/eve"], Channel)
    \cup Delivered({Prefix \o "showtime -delete=\"m1\""}, Sender("alice"), BotNick)

\* the readings of the clock, all on 2030-01-01
ClockTable ==
    << Date(2030, 1, 1, 16, 59, 59) + (TicksPerSecond - 1),
       Date(2030, 1, 1, 17, 0, 0),
       Date(2030, 1, 1, 19, 59, 58) + 2,
       Date(2030, 1, 1, 20, 0, 0),
       Date(2030, 1, 1, 20, 0, 0) + 1,
       Date(2030, 1, 1, 20, 0, 1),
       Date(2030, 1, 1, 23, 0, 0) >>

MaxClock == 6

\* the i-th reading; past the table, a quarter of an hour more each time
Reading(i) ==
    IF i < Len(ClockTable) THEN ClockTable[i + 1]
    ELSE ClockTable[Len(ClockTable)]
             + (i - Len(ClockTable) + 1) * 900 * TicksPerSecond

\* the orders in which a scan of the store can meet the showtimes: any order
\* for the range over the Go map, any result of ORDER BY datetime ASC for a query
ScanOrders ==
    IF bot = "db" THEN {p \in Perms(DOMAIN table) : OrderedByDatetime(p)}
    ELSE Perms(DOMAIN showtimes)

\* the lines whose handling scans the store: those routed to listShowtimes
\* and to handleNextMovieCommand (the others never look at the order)
Scans(message) ==
    \/ /\ HasPrefix(message, Prefix \o "showtime")
       /\ Len(argsOf(message)) >= 2
       /\ argsOf(message)[2] = "-list"
    \/ HasPrefix(message, Prefix \o "nextmovie")

(***************************************************************************)
(* Inputs: the messages given to parseArgs when it is followed alone       *)
(***************************************************************************)
\* the characters of the messages: a letter without a case of its own, the
\* letters t, n and r, the two separators, the quote and the backslash
Alphabet == {"a", "t", "n", "r", " ", "\t", "\"", "\\"}

MaxLen == 5

\* the messages of at most n characters
RECURSIVE Strings(_)
Strings(n) ==
    IF n = 0 THEN {""}
    ELSE LET shorter == Strings(n - 1)
         IN  shorter \cup {s \o c : s \in shorter, c \in Alphabet}

\* messages of the repository's tests of parseArgs, and two more
Examples ==
    { ";showtime -list",
      ";showtime -create -title=\"My Movie\" -id=\"abc\"",
      ";showtime -title=\"A \\\"Great\\\" Movie\"",
      ";showtime -title=My\\ Movie",
      "   ;showtime   -list   ",
      "\t;showtime\t-list\t",
      ";showtime -title=\"Unclosed",
      ";showtime -title=Movie\\\\Night",
      ";showtime -title=\"A \\\"Great\\\" Movie\" -id=abc\\ 123 -desc=\"Fun\\tNight\"",
      ";showtime -title=Movie\"Night\"",
      ";showtime -title=\"Movie with \\\\backslash\"",
      "-title=\"My Movie\"",
      "a\\xb" }

Inputs == Strings(MaxLen) \cup Examples

\* parseArgs has not returned
NotReturned == [done |-> FALSE, args |-> <<>>]

(***************************************************************************)
(* Inputs: the durations given to the formatters when they are followed    *)
(* alone                                                                   *)
(***************************************************************************)
\* the longest duration, in seconds: it has two hours, two minutes and two
\* seconds
MaxSeconds == 7322

\* the durations, in ticks: from one second before zero on
Durations == (0 - TicksPerSecond)..(MaxSeconds * TicksPerSecond)

\* neither formatter has returned: the results are sequences of no string
NotFormatted == [until |-> <<>>, since |-> <<>>]

(***************************************************************************)
(* Inputs: the callbacks that run at once                                  *)
(***************************************************************************)
\* the number of PRIVMSG callbacks the library runs at once
MaxHandlers == 2

Handlers == 1..MaxHandlers

\* a callback that has not been called: pc is where it is (idle, lock, run,
\* insert, unlock, done), e its event, exists what its check of the id
\* found, out what it sent
Idle == [pc |-> "idle", e |-> NoEvent, exists |-> FALSE, out |-> <<>>]

NotRunning == [h \in Handlers |-> Idle]

(***************************************************************************)
(* The state machine                                                       *)
(***************************************************************************)
Init ==
    /\ bot \in {"db", "mem"}
    /\ showtimes = [id \in {} |-> id]
    /\ table = [id \in {} |-> id]
    /\ now = Reading(0)
    /\ ev = NoEvent
    /\ out = <<>>
    /\ input = ""
    /\ loop = parseStart
    /\ returned = NotReturned
    /\ span = 0
    /\ formatted = NotFormatted
    /\ mu = 0
    /\ handlers = NotRunning
    /\ fault = ""

\* the transport delivers a PRIVMSG event, one of events, and the callback
\* handles it
Deliver(events) ==
    \E e \in events : \E order \in (IF Scans(e.message) THEN ScanOrders ELSE {<<>>}) :
        LET r == IF e.target # Channel
                 THEN Result(<<>>, showtimes, table)
                 ELSE callback(e, order)
        IN  /\ ev' = e
            /\ out' = r.out
            /\ showtimes' = r.showtimes
            /\ table' = r.table
            /\ fault' = ""
            /\ UNCHANGED <<bot, now, parseVars, formatVars, lockVars>>

PRIVMSG == Deliver(Events)

\* time passes between two events
Tick ==
    /\ \E i \in 1..MaxClock :
        /\ Reading(i - 1) = now
        /\ now' = Reading(i)
    /\ ev' = NoEvent
    /\ out' = <<>>
    /\ fault' = ""
    /\ UNCHANGED <<bot, showtimes, table, parseVars, formatVars, lockVars>>

Next == PRIVMSG \/ Tick

Spec == Init /\ [][Next]_vars

(***************************************************************************)
(* The bot with a failing database: in the database build a call of the    *)
(* store can return an error, and the command replies with the message of  *)
(* that call and returns.  The in-memory build has no call that can fail.  *)
(***************************************************************************)
\* the reply of a command to the error of each call of the store
ErrorReply ==
    [getAllShowtimes    |-> "Error retrieving showtimes.",
     getShowtimeByID    |-> "Error retrieving showtime.",
     deleteShowtimeByID |-> "Error deleting showtime.",
     showtimeExists     |-> "Error checking showtime existence.",
     insertShowtime     |-> "Error creating showtime.",
     getCurrentShowtime |-> "Error retrieving current movie information.",
     getNextShowtime    |-> "Error retrieving next movie information."]

\* the calls of the store that deleteShowtime makes
deleteCalls(args, nick) ==
    LET id == deleteId(args, 1)
    IN  IF id = "" THEN {}
        ELSE IF showtimeExists(id) /\ getShowtimeByID(id).CreatedBy = nick
        THEN {"getShowtimeByID", "deleteShowtimeByID"}
        ELSE {"getShowtimeByID"}

\* the calls of the store that createShowtime makes
createCalls(f) ==
    IF f.err # "" \/ f.id = "" \/ f.title = "" THEN {}
    ELSE IF ~showtimeExists(f.id) /\ createDatetime(f).err = ""
    THEN {"showtimeExists", "insertShowtime"}
    ELSE {"showtimeExists"}

\* the calls of the store that the callback makes for event e, in the state
storageCalls(e, order) ==
    IF bot # "db" \/ e.target # Channel THEN {}
    ELSE IF HasPrefix(e.message, Prefix \o "showtime")
    THEN LET args == argsOf(e.message)
         IN  IF ~authorizedShowtimeCommand(e.nick, e.host) \/ Len(args) < 2 THEN {}
             ELSE IF args[2] = "-list" THEN {"getAllShowtimes"}
             ELSE IF \E k \in 2..Len(args) : HasPrefix(args[k], "-delete")
             THEN deleteCalls(args, e.nick)
             ELSE IF args[2] = "-create"
             THEN createCalls(parseCreateArgs(args, 3, NoFields))
             ELSE {}
    ELSE IF HasPrefix(e.message, Prefix \o "nextmovie")
    THEN IF getCurrentShowtime(order, Len(order)) = 0
         THEN {"getCurrentShowtime", "getNextShowtime"}
         ELSE {"getCurrentShowtime"}
    ELSE {}

\* the transport delivers an event and a call of the store fails while the
\* callback handles it: the calls before it were reads, nothing is written
Fault ==
    \E e \in Events : \E order \in (IF Scans(e.message) THEN ScanOrders ELSE {<<>>}) :
      \E call \in storageCalls(e, order) :
        /\ ev' = e
        /\ out' = <<ErrorReply[call]>>
        /\ fault' = call
        /\ UNCHANGED <<bot, showtimes, table, now, parseVars, formatVars, lockVars>>

NextFaults == PRIVMSG \/ Tick \/ Fault

SpecFaults == Init /\ [][NextFaults]_vars

(***************************************************************************)
(* The tokenizer alone: one call of parseArgs, followed turn by turn.  The *)
(* code of parseArgs is the same in both builds; the bot is at rest.       *)
(***************************************************************************)
InitParse ==
    /\ bot = "mem"
    /\ showtimes = [id \in {} |-> id]
    /\ table = [id \in {} |-> id]
    /\ now = Reading(0)
    /\ ev = NoEvent
    /\ out = <<>>
    /\ input \in Inputs
    /\ loop = parseStart
    /\ returned = NotReturned
    /\ span = 0
    /\ formatted = NotFormatted
    /\ mu = 0
    /\ handlers = NotRunning
    /\ fault = ""

\* one turn of the loop "for _, char := range message"
Range ==
    /\ ~returned.done
    /\ loop.i <= Len(input)
    /\ loop' = parseChar(loop, input)
    /\ UNCHANGED <<botVars, input, returned, formatVars, lockVars, fault>>

\* the end of the loop: the remaining content is added, args is returned
Return ==
    /\ ~returned.done
    /\ loop.i > Len(input)
    /\ returned' = [done |-> TRUE, args |-> parseEnd(loop)]
    /\ UNCHANGED <<botVars, input, loop, formatVars, lockVars, fault>>

NextParse == Range \/ Return

SpecParse == InitParse /\ [][NextParse]_vars

(***************************************************************************)
(* Properties: vocabulary                                                  *)
(***************************************************************************)
\* the stored showtimes of the build that runs, by id
Store ==
    IF bot = "db" THEN [id \in DOMAIN table |-> scanRow(table[id])] ELSE showtimes

StoreUnchanged == showtimes' = showtimes /\ table' = table

\* the ids stored after the step
IdsAfter == IF bot = "db" THEN DOMAIN table' ELSE DOMAIN showtimes'

Tokens(e) == argsOf(e.message)

\* a line of the channel that begins with the showtime literal
ShowtimeLine(e) == e.target = Channel /\ HasPrefix(e.message, Prefix \o "showtime")

NextMovieLine(e) == e.target = Channel /\ HasPrefix(e.message, Prefix \o "nextmovie")

Authorized(e) == e.nick \in AuthorizedNicks /\ e.host = "user/" \o e.nick

HasDeleteToken(e) ==
    \E k \in 2..Len(Tokens(e)) : HasPrefix(Tokens(e)[k], "-delete")

ListCommand(e) ==
    ShowtimeLine(e) /\ Len(Tokens(e)) >= 2 /\ Tokens(e)[2] = "-list"

\* a delete command: a showtime line, not a list, with a -delete token
DeleteCommand(e) ==
    ShowtimeLine(e) /\ ~ListCommand(e) /\ HasDeleteToken(e)

\* a create command: a showtime line with second token -create that is not a
\* delete command
CreateCommand(e) ==
    /\ ShowtimeLine(e) /\ Len(Tokens(e)) >= 2 /\ Tokens(e)[2] = "-create"
    /\ ~HasDeleteToken(e)

\* the value of the last option of a create command that begins with prefix
RECURSIVE LastOption(_, _, _, _)
LastOption(args, k, prefix, acc) ==
    IF k > Len(args) THEN acc
    ELSE LastOption(args, k + 1, prefix,
                    IF HasPrefix(args[k], prefix) THEN ArgValue(args[k], prefix)
                    ELSE acc)

CreateId(e) == LastOption(Tokens(e), 3, "-id=", "")

CreateTitle(e) == LastOption(Tokens(e), 3, "-title=", "")

\* every numeric option of the create command is a number in its range
NumericOptionsValid(e) == parseCreateArgs(Tokens(e), 3, NoFields).err = ""

\* the id a delete command names
DeleteId(e) == deleteId(Tokens(e), 1)

DuplicateReply(id) == "Showtime with ID '" \o id \o "' already exists."

NotFoundReply(id) == "Showtime with ID '" \o id \o "' not found."

NotCreatorReply == "You can only delete showtimes you created."

HasSuffix(s, suffix) ==
    Len(s) >= Len(suffix) /\ SubSeq(s, Len(s) - Len(suffix) + 1, Len(s)) = suffix

\* the numbers of the lines of the reply that are the listing line of showtime
LinesOf(showtime) == {i \in 1..Len(out) : out[i] = showtimeLine(showtime)}

\* the listings a list command of sender e could produce in the state
Listings(e) ==
    {callback([e EXCEPT !.message = Prefix \o "showtime -list"], order).out :
        order \in ScanOrders}

(***************************************************************************)
(* C1                                                                      *)
(***************************************************************************)
\* C1 as stated: a create command from an authorized sender whose id is the id
\* of a stored showtime leaves the store as it was, and the only reply is the
\* duplicate-id message.
C1_Stated ==
    [][ ( /\ CreateCommand(ev') /\ Authorized(ev')
          /\ CreateId(ev') \in DOMAIN Store )
        => ( StoreUnchanged /\ out' = <<DuplicateReply(CreateId(ev'))>> ) ]_vars

\* C1, amended: such a command leaves the store as it was; its only reply is
\* the duplicate-id message when its title is not empty and every numeric
\* option it gives is valid (the options are validated before the id is
\* looked up).
C1_DuplicateCreate ==
    [][ ( /\ CreateCommand(ev') /\ Authorized(ev')
          /\ CreateId(ev') \in DOMAIN Store )
        => ( /\ StoreUnchanged
             /\ Len(out') = 1
             /\ (NumericOptionsValid(ev') /\ CreateTitle(ev') # "")
                    => out' = <<DuplicateReply(CreateId(ev'))>> ) ]_vars

\* a create of a stored id, with another title, was refused as a duplicate
C1_Witness ==
    /\ CreateCommand(ev) /\ Authorized(ev)
    /\ CreateId(ev) \in DOMAIN Store
    /\ Store[CreateId(ev)].Title # CreateTitle(ev)
    /\ out = <<DuplicateReply(CreateId(ev))>>

(***************************************************************************)
(* C2                                                                      *)
(***************************************************************************)
\* an authorized sender's delete command that names a stored showtime of
\* another creator
ForeignDelete(e) ==
    /\ DeleteCommand(e) /\ Authorized(e)
    /\ DeleteId(e) \in DOMAIN Store
    /\ Store[DeleteId(e)].CreatedBy # e.nick

\* C2: a delete command naming a stored showtime, sent by an authorized sender
\* who is not its creator, is answered "You can only delete showtimes you
\* created." and leaves the store unchanged; a list command of that sender
\* issued afterwards still has the showtime's line.
C2_NonCreatorDelete ==
    /\ [][ ForeignDelete(ev') => (out' = <<NotCreatorReply>> /\ StoreUnchanged) ]_vars
    /\ [] ( (DeleteCommand(ev) /\ Authorized(ev) /\ out = <<NotCreatorReply>>)
            => /\ DeleteId(ev) \in DOMAIN Store
               /\ \A listing \in Listings(ev) :
                    \E i \in 2..Len(listing) :
                        listing[i] = showtimeLine(Store[DeleteId(ev)]) )

\* a delete by an authorized sender who is not the creator was refused
C2_Witness ==
    /\ ForeignDelete(ev)
    /\ out = <<NotCreatorReply>>

C4_Stated ==
    [][ ( /\ DeleteCommand(ev')
          /\ DeleteId(ev') # "" /\ DeleteId(ev') \notin DOMAIN Store )
        => (out' = <<NotFoundReply(DeleteId(ev'))>> /\ StoreUnchanged) ]_vars

\* C4, amended: the same for every authorized requester, whether or not the
\* requester created anything (a requester who is not authorized is answered
\* with the authorization refusal).
C4_DeleteAbsent ==
    [][ ( /\ DeleteCommand(ev')
          /\ DeleteId(ev') # "" /\ DeleteId(ev') \notin DOMAIN Store )
        => /\ StoreUnchanged
           /\ Authorized(ev') => out' = <<NotFoundReply(DeleteId(ev'))>>
           /\ ~Authorized(ev')
                => out' = <<ev'.nick \o ": You are not authorized to use this command.">>
      ]_vars

\* a delete of an id that is not stored was answered, the store holding a
\* showtime of another creator
C4_Witness ==
    /\ DeleteCommand(ev) /\ Authorized(ev)
    /\ DeleteId(ev) \notin DOMAIN Store
    /\ out = <<NotFoundReply(DeleteId(ev))>>
    /\ \E id \in DOMAIN Store : Store[id].CreatedBy # ev.nick

(***************************************************************************)
(* C5                                                                      *)
(***************************************************************************)
\* the stored entry of id is the same after the step
EntryKept(id) ==
    IF bot = "db" THEN id \in DOMAIN table' /\ table'[id] = table[id]
    ELSE id \in DOMAIN showtimes' /\ showtimes'[id] = showtimes[id]

\* C5 as stated: from its creation until a delete by its creator succeeds, a
\* showtime has exactly one line, "[I] T - D ... (by N)", in the reply to
\* every list command, and no step of any sender removes or changes it.
C5_Stated ==
    /\ [] ( ListCommand(ev)
            => \A id \in DOMAIN Store : Cardinality(LinesOf(Store[id])) = 1 )
    /\ [][ \A id \in DOMAIN Store :
            \/ EntryKept(id)
            \/ /\ DeleteCommand(ev') /\ DeleteId(ev') = id
               /\ ev'.nick = Store[id].CreatedBy
               /\ out' = <<"Deleted showtime: " \o id>> ]_vars

(***************************************************************************)
(* C6                                                                      *)
(***************************************************************************)
\* C6: the showtime lines of the reply to a list command are the lines of the
\* stored showtimes in nondecreasing order of datetime.
C6_ListSorted ==
    (ListCommand(ev) /\ Len(out) > 1)
    => \E p \in Perms(DOMAIN Store) :
        /\ \A i, j \in DOMAIN p :
                i < j => Store[p[i]].DateTime <= Store[p[j]].DateTime
        /\ out = <<"Scheduled showtimes:">>
                     \o [i \in DOMAIN p |-> showtimeLine(Store[p[i]])]

\* a listing of three showtimes, not all at the same datetime
C6_Witness ==
    /\ ListCommand(ev)
    /\ Len(out) = 4
    /\ Cardinality(DOMAIN Store) = 3
    /\ \E a, b \in DOMAIN Store : Store[a].DateTime < Store[b].DateTime

(***************************************************************************)
(* C7                                                                      *)
(***************************************************************************)
\* C7 as stated, for the in-memory build: two list commands with no create or
\* delete between them emit the same lines in the same order, also when
\* stored showtimes have the same datetime.
C7_Stated ==
    [][ ( /\ bot = "mem"
          /\ ListCommand(ev) /\ Authorized(ev)
          /\ ListCommand(ev') /\ Authorized(ev') )
        => out' = out ]_vars

(***************************************************************************)
(* C8, C9, C10                                                             *)
(***************************************************************************)
Stored == {Store[id] : id \in DOMAIN Store}

\* the stored showtimes that start after now; those that have started
Future == {s \in Stored : s.DateTime > now}

Past == {s \in Stored : s.DateTime <= now}

\* those that started within the last three hours
Window == {s \in Past : now - ThreeHours <= s.DateTime}

Nearest(s) == s \in Future /\ \A t \in Future : s.DateTime <= t.DateTime

UpcomingReply(s) ==
    formatTimeUntil(s.DateTime - now) \o ", " \o s.Title \o " is playing!"

CurrentReply(s) == formatTimeSince(now - s.DateTime) \o " into " \o s.Title

ReportsUpcoming == Len(out) = 1 /\ HasSuffix(out[1], " is playing!")

\* C8 as stated: when nextmovie reports an upcoming showtime, it is the stored
\* showtime with the smallest datetime greater than now; when no stored
\* showtime has a datetime greater than now, none is reported as upcoming.
C8_Stated ==
    NextMovieLine(ev)
    => /\ ReportsUpcoming => \E s \in Future : Nearest(s) /\ out = <<UpcomingReply(s)>>
       /\ Future = {} => ~ReportsUpcoming

\* C9 as stated: in the database build nextmovie reports a showtime as
\* current exactly when some stored showtime has now-3h <= datetime <= now,
\* and then the one with the greatest such datetime; otherwise the reply is
\* the nearest upcoming showtime or "No movies scheduled!".
C9_Stated ==
    (bot = "db" /\ NextMovieLine(ev))
    => IF Window # {}
       THEN \E s \in Window :
                /\ \A t \in Window : t.DateTime <= s.DateTime
                /\ out = <<CurrentReply(s)>>
       ELSE \/ Future = {} /\ out = <<"No movies scheduled!">>
            \/ \E s \in Future : Nearest(s) /\ out = <<UpcomingReply(s)>>

\* C10 as stated: in the in-memory build, whenever a stored showtime has
\* datetime <= now, nextmovie reports the one with the greatest such datetime
\* as current; an upcoming showtime is reported only when there is none.
C10_Stated ==
    (bot = "mem" /\ NextMovieLine(ev))
    => IF Past # {}
       THEN \E s \in Past :
                /\ \A t \in Past : t.DateTime <= s.DateTime
                /\ out = <<CurrentReply(s)>>
       ELSE out = <<"No movies scheduled!">> \/ ReportsUpcoming

(***************************************************************************)
(* C11                                                                     *)
(***************************************************************************)
\* C11 as stated: a list command sent in the channel by a sender who is not
\* authorized is answered with the listing (the header and one line per
\* stored showtime, or "No showtimes scheduled."), not with a refusal.
C11_Stated ==
    (ListCommand(ev) /\ ~Authorized(ev))
    => \E order \in ScanOrders : out = listShowtimes(order).out

(***************************************************************************)
(* C12                                                                     *)
(***************************************************************************)
Refusal(e) == e.nick \o ": You are not authorized to use this command."

RequiredReply == "Required: -id=\"id\" -title=\"title\""

\* every stored showtime has a non-empty id and a non-empty title
IdAndTitleNonEmpty ==
    \A id \in DOMAIN Store :
        id # "" /\ Store[id].ID = id /\ Store[id].Title # ""

\* an authorized sender's create command whose id or title is missing or empty
Incomplete(e) ==
    /\ CreateCommand(e) /\ Authorized(e)
    /\ (CreateId(e) = "" \/ CreateTitle(e) = "")

\* C13 as stated: every stored showtime has a non-empty id and a non-empty
\* title, and a create command whose -id or -title is missing or empty is
\* answered "Required: -id=\"id\" -title=\"title\"" and stores nothing.
C13_Stated ==
    /\ [] IdAndTitleNonEmpty
    /\ [][ Incomplete(ev') => (out' = <<RequiredReply>> /\ StoreUnchanged) ]_vars

\* C13, amended: every stored showtime has a non-empty id and a non-empty
\* title; a create command whose -id or -title is missing or empty stores
\* nothing and gets one reply, which is the "Required" message when every
\* numeric option of the command is valid and the complaint about the first
\* invalid numeric option otherwise.
C13_RequiredFields ==
    /\ [] IdAndTitleNonEmpty
    /\ [][ Incomplete(ev')
           => /\ StoreUnchanged
              /\ out' = <<IF NumericOptionsValid(ev') THEN RequiredReply
                          ELSE parseCreateArgs(Tokens(ev'), 3, NoFields).err>> ]_vars

\* a create command with -id="" (an empty token value after tokenization) and
\* a title was answered with the "Required" message
C13_Witness ==
    /\ Incomplete(ev)
    /\ \E k \in 3..Len(Tokens(ev)) : Tokens(ev)[k] = "-id="
    /\ CreateTitle(ev) # ""
    /\ out = <<RequiredReply>>

(***************************************************************************)
(* createShowtime alone: one create command with discrete fields is        *)
(* delivered to a bot whose store is empty, at one of a few times of day.   *)
(***************************************************************************)
\* the readings of the clock: the last day of a month of 31 days, the 29th of
\* February of a leap year, a day in a month of 30 days
CreateClocks ==
    { Date(2030, 1, 31, 10, 30, 15) + 1,
      Date(2032, 2, 29, 23, 59, 59) + (TicksPerSecond - 1),
      Date(2030, 4, 15, 0, 0, 0) }

CreateEvents == Delivered(CreateMessages(Prefix), Sender("alice"), Channel)

InitCreate ==
    /\ bot \in {"db", "mem"}
    /\ showtimes = [id \in {} |-> id]
    /\ table = [id \in {} |-> id]
    /\ now \in CreateClocks
    /\ ev = NoEvent
    /\ out = <<>>
    /\ input = ""
    /\ loop = parseStart
    /\ returned = NotReturned
    /\ span = 0
    /\ formatted = NotFormatted
    /\ mu = 0
    /\ handlers = NotRunning
    /\ fault = ""

Create ==
    /\ ev = NoEvent
    /\ Deliver(CreateEvents)

NextCreate == Create

SpecCreate == InitCreate /\ [][NextCreate]_vars

(***************************************************************************)
(* The formatters alone: formatTimeUntil and formatTimeSince are called    *)
(* once each, in either order, on one duration; the bot is at rest.        *)
(***************************************************************************)
InitFormat ==
    /\ bot = "mem"
    /\ showtimes = [id \in {} |-> id]
    /\ table = [id \in {} |-> id]
    /\ now = Reading(0)
    /\ ev = NoEvent
    /\ out = <<>>
    /\ input = ""
    /\ loop = parseStart
    /\ returned = NotReturned
    /\ span \in Durations
    /\ formatted = NotFormatted
    /\ mu = 0
    /\ handlers = NotRunning
    /\ fault = ""

FormatUntil ==
    /\ formatted.until = <<>>
    /\ formatted' = [formatted EXCEPT !.until = <<formatTimeUntil(span)>>]
    /\ UNCHANGED <<botVars, parseVars, span, lockVars, fault>>

FormatSince ==
    /\ formatted.since = <<>>
    /\ formatted' = [formatted EXCEPT !.since = <<formatTimeSince(span)>>]
    /\ UNCHANGED <<botVars, parseVars, span, lockVars, fault>>

NextFormat == FormatUntil \/ FormatSince

SpecFormat == InitFormat /\ [][NextFormat]_vars

(***************************************************************************)
(* Callbacks at once: the library calls the PRIVMSG callback for several   *)
(* events at the same time, and each callback is followed from its channel *)
(* test to its return.  Between mu.Lock() and the deferred mu.Unlock() the *)
(* check of a new id and the insert are two steps; every other command is  *)
(* one step.  The clock stands still.                                      *)
(***************************************************************************)
\* the events: alice and bob create m1 (at 20:00:00 and at 00:00:00), alice
\* lists, eve asks for the next movie and for the date, alice writes to the
\* bot in private
LockEvents ==
    Delivered({Prefix \o "showtime -create -id=m1 -title=Dune -hours=20"},
              Sender("alice"), Channel)
    \cup Delivered({Prefix \o "showtime -create -id=m1 -title=Dune"},
                   Sender("bob"), Channel)
    \cup Delivered({Prefix \o "showtime -list"}, Sender("alice"), Channel)
    \cup Delivered({Prefix \o "nextmovie", Prefix \o "date"}, Sender("eve"), Channel)
    \cup Delivered({Prefix \o "showtime -delete=\"m1\""}, Sender("alice"), BotNick)

InitLock ==
    /\ bot \in {"db", "mem"}
    /\ showtimes = [id \in {} |-> id]
    /\ table = [id \in {} |-> id]
    /\ now = Reading(0)
    /\ ev = NoEvent
    /\ out = <<>>
    /\ input = ""
    /\ loop = parseStart
    /\ returned = NotReturned
    /\ span = 0
    /\ formatted = NotFormatted
    /\ mu = 0
    /\ handlers = NotRunning
    /\ fault = ""

\* the callback is called with an event, one of events: the channel test
CallWith(h, events) ==
    /\ handlers[h].pc = "idle"
    /\ \E e \in events :
        handlers' = [handlers EXCEPT
                        ![h] = [Idle EXCEPT !.e = e,
                                            !.pc = IF e.target # Channel THEN "done"
                                                   ELSE "lock"]]
    /\ fault' = ""
    /\ UNCHANGED <<botVars, parseVars, formatVars, mu>>

Call(h) == CallWith(h, LockEvents)

\* a faulty variant of canLock, a lock that never waits: C24 must fail with
\* it
canLockAtOnce(h) == TRUE

\* mu.Lock() returns only when the lock is free
canLock(h) == mu = 0

Lock(h) ==
    /\ handlers[h].pc = "lock"
    /\ canLock(h)
    /\ mu' = h
    /\ handlers' = [handlers EXCEPT ![h].pc = "run"]
    /\ fault' = ""
    /\ UNCHANGED <<botVars, parseVars, formatVars>>

\* the fields of the create command of event e
createFields(e) == parseCreateArgs(argsOf(e.message), 3, NoFields)

\* the callback of event e comes to the check of the id in createShowtime:
\* a showtime line of an authorized sender, routed to createShowtime, with
\* valid numeric options, an id and a title
reachesCheck(e) ==
    /\ HasPrefix(e.message, Prefix \o "showtime")
    /\ authorizedShowtimeCommand(e.nick, e.host)
    /\ LET args == argsOf(e.message)
       IN  /\ Len(args) >= 2
           /\ args[2] = "-create"
           /\ ~ \E k \in 2..Len(args) : HasPrefix(args[k], "-delete")
    /\ createFields(e).err = ""
    /\ createFields(e).id # "" /\ createFields(e).title # ""

\* createShowtime up to the check that the id is new
Check(h) ==
    /\ handlers[h].pc = "run"
    /\ reachesCheck(handlers[h].e)
    /\ handlers' = [handlers EXCEPT
                       ![h].pc = "insert",
                       ![h].exists = idExists(createFields(handlers[h].e).id)]
    /\ ev' = handlers[h].e
    /\ out' = <<>>
    /\ fault' = ""
    /\ UNCHANGED <<bot, showtimes, table, now, parseVars, formatVars, mu>>

\* createShowtime after the check: the reply to a known id, or the
\* datetime and the insert; in the database build INSERT fails on an id
\* that is in the table (id TEXT PRIMARY KEY)
Insert(h) ==
    /\ handlers[h].pc = "insert"
    /\ LET e  == handlers[h].e
           f  == createFields(e)
           dt == createDatetime(f)
           r  == IF handlers[h].exists
                 THEN Reply("Showtime with ID '" \o f.id \o "' already exists.")
                 ELSE IF dt.err # "" THEN Reply(dt.err)
                 ELSE IF bot = "db" /\ showtimeExists(f.id)
                 THEN Reply("Error creating showtime.")
                 ELSE createAt(f, dt, e.nick)
       IN  /\ handlers' = [handlers EXCEPT ![h].pc = "unlock", ![h].out = r.out]
           /\ ev' = e
           /\ out' = r.out
           /\ showtimes' = r.showtimes
           /\ table' = r.table
    /\ fault' = ""
    /\ UNCHANGED <<bot, now, parseVars, formatVars, mu>>

\* every other path of the callback, in one step
Handle(h) ==
    /\ handlers[h].pc = "run"
    /\ ~reachesCheck(handlers[h].e)
    /\ \E order \in (IF Scans(handlers[h].e.message) THEN ScanOrders ELSE {<<>>}) :
        LET r == callback(handlers[h].e, order)
        IN  /\ handlers' = [handlers EXCEPT ![h].pc = "unlock", ![h].out = r.out]
            /\ ev' = handlers[h].e
            /\ out' = r.out
            /\ showtimes' = r.showtimes
            /\ table' = r.table
    /\ fault' = ""
    /\ UNCHANGED <<bot, now, parseVars, formatVars, mu>>

\* a faulty variant of Unlock, an unlock at the end of the callback that
\* the return after an error of the store does not reach: C32 must fail
\* with it
UnlockUnlessError(h) ==
    /\ handlers[h].pc = "unlock"
    /\ mu' = IF \E call \in DOMAIN ErrorReply : handlers[h].out = <<ErrorReply[call]>>
             THEN mu ELSE 0
    /\ handlers' = [handlers EXCEPT ![h].pc = "done"]
    /\ fault' = ""
    /\ UNCHANGED <<botVars, parseVars, formatVars>>

\* the callback returns: the deferred mu.Unlock()
Unlock(h) ==
    /\ handlers[h].pc = "unlock"
    /\ mu' = 0
    /\ handlers' = [handlers EXCEPT ![h].pc = "done"]
    /\ fault' = ""
    /\ UNCHANGED <<botVars, parseVars, formatVars>>

NextLock ==
    \E h \in Handlers :
        Call(h) \/ Lock(h) \/ Check(h) \/ Insert(h) \/ Handle(h) \/ Unlock(h)

SpecLock == InitLock /\ [][NextLock]_vars

\* the next step of callback h is the return of a call of the store, which
\* database/sql makes without a context or a deadline
awaitsStore(h) ==
    /\ bot = "db"
    /\ \/ /\ handlers[h].pc = "run"
          /\ storageCalls(handlers[h].e, <<>>) # {}
       \/ /\ handlers[h].pc = "insert"
          /\ ~handlers[h].exists
          /\ createDatetime(createFields(handlers[h].e)).err = ""

(***************************************************************************)
(* Callbacks at once, with a database whose calls can fail, and with the   *)
(* commands that end in an error.                                          *)
(***************************************************************************)
\* the events: those above; alice creates with an hour out of range and
\* deletes m9, which nobody creates; bob deletes m1; eve lists
RecoverEvents ==
    LockEvents
    \cup Delivered({Prefix \o "showtime -create -id=m1 -title=Dune -hours=24",
                    Prefix \o "showtime -delete=m9"}, Sender("alice"), Channel)
    \cup Delivered({Prefix \o "showtime -delete=\"m1\""}, Sender("bob"), Channel)
    \cup Delivered({Prefix \o "showtime -list"}, Sender("eve"), Channel)

CallAny(h) == CallWith(h, RecoverEvents)

\* the calls of the store that the next step of callback h makes
nextCalls(h, order) ==
    IF bot # "db" THEN {}
    ELSE IF handlers[h].pc = "run"
    THEN IF reachesCheck(handlers[h].e) THEN {"showtimeExists"}
         ELSE storageCalls(handlers[h].e, order)
    ELSE IF handlers[h].pc = "insert" /\ awaitsStore(h) THEN {"insertShowtime"}
    ELSE {}

\* a call of the store returns an error: the callback replies with the
\* message of that call and returns
Fail(h) ==
    /\ \E order \in (IF Scans(handlers[h].e.message) THEN ScanOrders ELSE {<<>>}) :
        \E call \in nextCalls(h, order) :
            /\ handlers' = [handlers EXCEPT ![h].pc = "unlock",
                                            ![h].out = <<ErrorReply[call]>>]
            /\ ev' = handlers[h].e
            /\ out' = <<ErrorReply[call]>>
            /\ fault' = call
    /\ UNCHANGED <<bot, showtimes, table, now, parseVars, formatVars, mu>>

NextRecover ==
    \E h \in Handlers :
        \/ CallAny(h) \/ Lock(h) \/ Check(h) \/ Insert(h) \/ Handle(h) \/ Unlock(h)
        \/ Fail(h)

SpecRecover == InitLock /\ [][NextRecover]_vars

(***************************************************************************)
(* parseArgs: vocabulary                                                   *)
(***************************************************************************)
\* the step is a turn of the loop
Turn == loop'.i = loop.i + 1

\* the character of the turn
Char == Ch(input, loop.i)

Separators == {" ", "\t"}

\* the turn ends no token; it ends the token collected so far
NoTokenEnds == loop'.args = loop.args

TokenEnds == loop'.args = Append(loop.args, loop.current) /\ loop'.current = ""

\* the turn adds text to the token that is being collected, and nothing else
Adds(text) ==
    /\ loop'.current = loop.current \o text
    /\ NoTokenEnds
    /\ loop'.inQuotes = loop.inQuotes

\* the places of the empty tokens of args
EmptyTokens(args) == {k \in DOMAIN args : args[k] = ""}

\* s has none of the characters of set
Without(s, set) == \A k \in 1..Len(s) : Ch(s, k) \notin set

\* the words of s: its longest runs of characters that are not separators
\* (word is the run that is being read, k the place reached)
RECURSIVE WordsFrom(_, _, _)
WordsFrom(s, k, word) ==
    IF k > Len(s) THEN (IF word = "" THEN <<>> ELSE <<word>>)
    ELSE IF Ch(s, k) \in Separators
    THEN (IF word = "" THEN <<>> ELSE <<word>>) \o WordsFrom(s, k + 1, "")
    ELSE WordsFrom(s, k + 1, word \o Ch(s, k))

Words(s) == WordsFrom(s, 1, "")

(***************************************************************************)
(* C14                                                                     *)
(***************************************************************************)
\* C14: a space or tab ends the token collected so far exactly when it is
\* unescaped and outside quotes, and is added to the token otherwise; no empty
\* token comes from a separator or from the end of the message: an empty
\* token is added only by a closing quote met with an empty buffer; a message
\* without quotes and backslashes yields its words, and a message that is
\* empty or made of spaces and tabs yields no token.
C14_Separators ==
    /\ [][ (Turn /\ Char \in Separators)
           => IF ~loop.escaped /\ ~loop.inQuotes
              THEN /\ loop'.current = ""
                   /\ loop'.args = IF loop.current = "" THEN loop.args
                                   ELSE Append(loop.args, loop.current)
              ELSE Adds(Char) ]_vars
    /\ [][ (Turn /\ EmptyTokens(loop'.args) # EmptyTokens(loop.args))
           => /\ Char = "\"" /\ ~loop.escaped /\ loop.inQuotes
              /\ loop.current = "" ]_vars
    /\ [] ( returned.done
            => /\ EmptyTokens(returned.args) = EmptyTokens(loop.args)
               /\ Without(input, {"\"", "\\"}) => returned.args = Words(input)
               /\ Without(input, Alphabet \ Separators) => returned.args = <<>> )

\* a message with a space inside quotes and a space after them has returned
\* one token, the space
C14_Witness ==
    /\ returned.done
    /\ input = "\" \" "
    /\ returned.args = <<" ">>

(***************************************************************************)
(* C15                                                                     *)
(***************************************************************************)
\* the places of the quotes of s
Quotes(s) == {k \in 1..Len(s) : Ch(s, k) = "\""}

\* C15: an unescaped quote met inside quotes ends the token collected so far,
\* also when it is empty, and leaves the quotes; the message "" yields one
\* token, the empty string; the text after a closing quote is not part of the
\* quoted token: a message that is a quoted text followed by text without
\* quotes yields the quoted text and then the words that follow it.
C15_ClosingQuote ==
    /\ [][ (Turn /\ Char = "\"" /\ ~loop.escaped /\ loop.inQuotes)
           => (TokenEnds /\ ~loop'.inQuotes) ]_vars
    /\ [] ( returned.done
            => /\ input = "\"\"" => returned.args = <<"">>
               /\ \A k \in 2..Len(input) :
                    (Quotes(input) = {1, k} /\ Without(input, {"\\"}))
                    => returned.args = <<SubSeq(input, 2, k - 1)>>
                                          \o Words(SubSeq(input, k + 1, Len(input))) )

\* a quoted letter followed by a letter has returned two tokens
C15_Witness ==
    /\ returned.done
    /\ input = "\"a\"a"
    /\ returned.args = <<"a", "a">>

(***************************************************************************)
(* C16                                                                     *)
(***************************************************************************)
\* the characters with an escape of their own, and what each adds to the
\* token after a backslash
Escapable == {"t", "n", "r", "\\", "\"", " ", "\t"}

EscapeOf(c) ==
    CASE c = "t" -> "\t"
      [] c = "n" -> "\n"
      [] c = "r" -> "\r"
      [] OTHER -> c

\* s is made of pairs of a backslash and an escapable character
EscapePairs(s) ==
    /\ Len(s) % 2 = 0
    /\ \A k \in 1..Len(s) :
        IF k % 2 = 1 THEN Ch(s, k) = "\\" ELSE Ch(s, k) \in Escapable

\* what the pairs of s from place k on add to the token
RECURSIVE EscapesFrom(_, _)
EscapesFrom(s, k) ==
    IF k > Len(s) THEN ""
    ELSE EscapeOf(Ch(s, k + 1)) \o EscapesFrom(s, k + 2)

\* C16: inside or outside quotes, an unescaped backslash adds nothing to the
\* token; the character after it, when it is t, n or r, adds a tab, a newline
\* or a carriage return; a backslash adds one backslash; a quote adds a quote
\* and the quotes are neither entered nor left; a space or tab adds itself
\* and ends no token.  A message made of such pairs yields one token, the
\* characters they stand for.
C16_Escapes ==
    /\ [][ (Turn /\ ~loop.escaped /\ Char = "\\")
           => (Adds("") /\ loop'.escaped) ]_vars
    /\ [][ (Turn /\ loop.escaped /\ Char \in Escapable)
           => (Adds(EscapeOf(Char)) /\ ~loop'.escaped) ]_vars
    /\ [] ( returned.done
            => /\ (EscapePairs(input) /\ input # "")
                    => returned.args = <<EscapesFrom(input, 1)>>
               /\ input = ";showtime -title=My\\ Movie"
                    => returned.args = <<";showtime", "-title=My Movie">>
               /\ input = ";showtime -title=\"A \\\"Great\\\" Movie\""
                    => returned.args = <<";showtime", "-title=A \"Great\" Movie">>
               /\ input = ";showtime -title=Movie\\\\Night"
                    => returned.args = <<";showtime", "-title=Movie\\Night">>
               /\ input = ";showtime -title=\"A \\\"Great\\\" Movie\" -id=abc\\ 123 -desc=\"Fun\\tNight\""
                    => returned.args = <<";showtime", "-title=A \"Great\" Movie",
                                         "-id=abc 123", "-desc=Fun\tNight">> )

\* the message \t\" has returned one token: a tab and a quote
C16_Witness ==
    /\ returned.done
    /\ input = "\\t\\\""
    /\ returned.args = <<"\t\"">>

(***************************************************************************)
(* C17                                                                     *)
(***************************************************************************)
\* C17 as stated: a backslash followed by a character other than t, n, r,
\* backslash, quote, space and tab adds that character alone to the token;
\* the message a\xb yields the token axb.
C17_Stated ==
    /\ [][ (Turn /\ loop.escaped /\ Char \notin Escapable)
           => (Adds(Char) /\ ~loop'.escaped) ]_vars
    /\ [] ( (returned.done /\ input = "a\\xb") => returned.args = <<"axb">> )

\* C17, amended: such a character is added to the token after the backslash,
\* which is kept; the message a\xb yields the token a\xb.
C17_KeepsBackslash ==
    /\ [][ (Turn /\ loop.escaped /\ Char \notin Escapable)
           => (Adds("\\" \o Char) /\ ~loop'.escaped) ]_vars
    /\ [] ( (returned.done /\ input = "a\\xb") => returned.args = <<"a\\xb">> )

\* the message a\xb has returned one token of four characters
C17_Witness ==
    /\ returned.done
    /\ input = "a\\xb"
    /\ Len(returned.args) = 1
    /\ Len(returned.args[1]) = 4

(***************************************************************************)
(* C18                                                                     *)
(***************************************************************************)
\* C18: an unescaped quote met outside quotes enters the quotes and does
\* nothing else: it is not added to the token and the text collected before
\* it stays in the buffer, so a word followed at once by a quoted text that
\* ends the message yields one token, the word and the text together;
\* -title=Movie"Night" yields -title=MovieNight and -title="My Movie" yields
\* -title=My Movie.
C18_OpeningQuote ==
    /\ [][ (Turn /\ Char = "\"" /\ ~loop.escaped /\ ~loop.inQuotes)
           => /\ loop'.current = loop.current
              /\ NoTokenEnds
              /\ loop'.inQuotes ]_vars
    /\ [] ( returned.done
            => /\ \A k \in 1..(Len(input) - 1) :
                    ( /\ Quotes(input) = {k, Len(input)}
                      /\ Without(input, {"\\"})
                      /\ Without(SubSeq(input, 1, k - 1), Separators) )
                    => returned.args = << SubSeq(input, 1, k - 1)
                                            \o SubSeq(input, k + 1, Len(input) - 1) >>
               /\ input = ";showtime -title=Movie\"Night\""
                    => returned.args = <<";showtime", "-title=MovieNight">>
               /\ input = "-title=\"My Movie\""
                    => returned.args = <<"-title=My Movie">>
               /\ input = ";showtime -create -title=\"My Movie\" -id=\"abc\""
                    => returned.args = <<";showtime", "-create", "-title=My Movie",
                                         "-id=abc">> )

\* a letter followed by a quoted space has returned one token of both
C18_Witness ==
    /\ returned.done
    /\ input = "a\" \""
    /\ returned.args = <<"a ">>

(***************************************************************************)
(* C19                                                                     *)
(***************************************************************************)
\* the characters at the end of s that follow its last separator
RECURSIVE LastRun(_)
LastRun(s) ==
    IF s = "" \/ Ch(s, Len(s)) \in Separators THEN ""
    ELSE LastRun(SubSeq(s, 1, Len(s) - 1)) \o Ch(s, Len(s))

\* C19: when the message ends inside quotes, parseArgs returns the tokens
\* ended before, followed by the buffer as one last token when the buffer is
\* not empty, and by nothing when it is empty.  For a message with one quote
\* and no backslash the last token is the text that precedes the quote back
\* to the last separator together with everything after the quote, spaces
\* included.
C19_UnclosedQuote ==
    returned.done
    => /\ loop.inQuotes
            => returned.args = loop.args \o (IF loop.current = "" THEN <<>>
                                             ELSE <<loop.current>>)
       /\ \A k \in 1..Len(input) :
            (Quotes(input) = {k} /\ Without(input, {"\\"}))
            => LET before == SubSeq(input, 1, k - 1)
                   after  == SubSeq(input, k + 1, Len(input))
                   run    == LastRun(before)
                   last   == run \o after
               IN  /\ loop.inQuotes
                   /\ returned.args =
                        Words(SubSeq(before, 1, Len(before) - Len(run)))
                            \o (IF last = "" THEN <<>> ELSE <<last>>)
       /\ input = ";showtime -title=\"Unclosed"
            => returned.args = <<";showtime", "-title=Unclosed">>

\* a letter, an opening quote, a space and a letter have returned one token
C19_Witness ==
    /\ returned.done
    /\ loop.inQuotes
    /\ input = "a\" a"
    /\ returned.args = <<"a a">>

(***************************************************************************)
(* C20                                                                     *)
(***************************************************************************)
\* the number of backslashes at the end of s
RECURSIVE TrailingBackslashes(_)
TrailingBackslashes(s) ==
    IF s = "" \/ Ch(s, Len(s)) # "\\" THEN 0
    ELSE 1 + TrailingBackslashes(SubSeq(s, 1, Len(s) - 1))

\* C20: a message that ends with a backslash that is not itself escaped (the
\* backslashes at its end are odd in number) returns what the message
\* without that backslash returns.
C20_TrailingBackslash ==
    (returned.done /\ TrailingBackslashes(input) % 2 = 1)
    => returned.args = parseArgs(SubSeq(input, 1, Len(input) - 1))

\* two words and a backslash have returned the two words
C20_Witness ==
    /\ returned.done
    /\ input = "a a\\"
    /\ loop.escaped
    /\ returned.args = <<"a", "a">>

(***************************************************************************)
(* The formatters: vocabulary                                              *)
(***************************************************************************)
\* the whole number of seconds nearest to a duration, half a second counting
\* as a whole one
WholeSeconds(d) ==
    IF d >= 0
    THEN d \div TicksPerSecond + (IF 2 * (d % TicksPerSecond) >= TicksPerSecond THEN 1 ELSE 0)
    ELSE 0 - ((0 - d) \div TicksPerSecond
              + (IF 2 * ((0 - d) % TicksPerSecond) >= TicksPerSecond THEN 1 ELSE 0))

\* a clause: a number and its unit, in the plural unless the number is 1
ClauseText(c) == Itoa(c.n) \o " " \o c.unit \o (IF c.n = 1 THEN "" ELSE "s")

Shown(c) == c.shown

\* the clauses from the k-th on, joined by ", "
RECURSIVE JoinFrom(_, _)
JoinFrom(clauses, k) ==
    IF k = Len(clauses) THEN ClauseText(clauses[k])
    ELSE ClauseText(clauses[k]) \o ", " \o JoinFrom(clauses, k + 1)

\* the clauses of n seconds that are shown: hours if any, minutes if any,
\* seconds if any and there is no hour
ClausesOf(n) ==
    LET hours   == n \div 3600
        minutes == (n \div 60) % 60
        seconds == n % 60
    IN  SelectSeq(<< [n |-> hours, unit |-> "hour", shown |-> hours > 0],
                     [n |-> minutes, unit |-> "minute", shown |-> minutes > 0],
                     [n |-> seconds, unit |-> "second",
                      shown |-> seconds > 0 /\ hours = 0] >>,
                  Shown)

Seconds(n) == n * TicksPerSecond

\* what the formatters have returned is until and since (nothing is said of a
\* formatter that has not returned)
Formatted(until, since) ==
    /\ formatted.until \in {<<>>, <<until>>}
    /\ formatted.since \in {<<>>, <<since>>}

(***************************************************************************)
(* C21                                                                     *)
(***************************************************************************)
\* C21: for a duration of 60 seconds or more both formatters return the hours
\* clause when hours > 0, the minutes clause when minutes > 0 and the seconds
\* clause when seconds > 0 and hours = 0, in that order and joined by ", ",
\* each in the singular for 1 and in the plural otherwise, with "In " before
\* them for formatTimeUntil only; there is always a clause; 90 s gives
\* "In 1 minute, 30 seconds" and 3661 s gives "In 1 hour, 1 minute".
C21_Clauses ==
    /\ span >= Seconds(60)
        => LET clauses == ClausesOf(WholeSeconds(span))
           IN  /\ clauses # <<>>
               /\ Formatted("In " \o JoinFrom(clauses, 1), JoinFrom(clauses, 1))
    /\ span = Seconds(90)
        => Formatted("In 1 minute, 30 seconds", "1 minute, 30 seconds")
    /\ span = Seconds(3661)
        => Formatted("In 1 hour, 1 minute", "1 hour, 1 minute")

\* both formatters have returned for a duration of two hours and one second:
\* the second is not shown
C21_Witness ==
    /\ span = Seconds(7201)
    /\ formatted = [until |-> <<"In 2 hours">>, since |-> <<"2 hours">>]

(***************************************************************************)
(* C22                                                                     *)
(***************************************************************************)
\* C22: both formatters work on the duration rounded to the nearest whole
\* second: when that is 0 or less they return "Now" and "Just started"; when
\* it is 1 to 59 they return "In 1 second" and "1 second", or "In N seconds"
\* and "N seconds"; a duration of less than half a second gives "Now", and
\* one of half a second or more and less than a second and a half gives
\* "In 1 second".
C22_Rounding ==
    LET n == WholeSeconds(span)
    IN  /\ n <= 0 => Formatted("Now", "Just started")
        /\ n = 1 => Formatted("In 1 second", "1 second")
        /\ (2 <= n /\ n <= 59)
            => Formatted("In " \o Itoa(n) \o " seconds", Itoa(n) \o " seconds")
        /\ 2 * span < TicksPerSecond => Formatted("Now", "Just started")
        /\ (TicksPerSecond <= 2 * span /\ 2 * span < 3 * TicksPerSecond)
            => Formatted("In 1 second", "1 second")

\* both formatters have returned for a duration that is more than nothing
\* and less than half a second, and for none shorter
C22_Witness ==
    /\ span > 0 /\ 2 * span < TicksPerSecond
    /\ formatted = [until |-> <<"Now">>, since |-> <<"Just started">>]

(***************************************************************************)
(* C23                                                                     *)
(***************************************************************************)
\* the showtime stored under id after the step
StoredAfter(id) == IF bot = "db" THEN scanRow(table'[id]) ELSE showtimes'[id]

\* the step is a create command that stores a showtime
Creates ==
    /\ CreateCommand(ev')
    /\ CreateId(ev') \notin DOMAIN Store
    /\ CreateId(ev') \in IdsAfter

\* "[ID] TITLE - YYYY-MM-DD HH:MM:SS" of a showtime
Stamp(showtime) ==
    "[" \o showtime.ID \o "] " \o showtime.Title \o " - "
        \o FormatFields(Fields(showtime.DateTime), " ", "")

\* C23 as stated: the reply to a create command that stores a showtime is
\* "Created showtime: [ID] TITLE - YYYY-MM-DD HH:MM:SS" with the stored id,
\* title and UTC datetime, and nothing after the seconds.
C23_Stated ==
    [][ Creates
        => out' = <<"Created showtime: " \o Stamp(StoredAfter(CreateId(ev')))>> ]_vars

\* C23, amended: the reply is that text followed by " UTC".
C23_CreatedReply ==
    [][ Creates
        => out' = <<"Created showtime: " \o Stamp(StoredAfter(CreateId(ev')))
                        \o " UTC">> ]_vars

\* a create command with -hours=17 and no date has stored m3 and was answered
C23_Witness ==
    /\ CreateCommand(ev)
    /\ CreateId(ev) = "m3" /\ "m3" \in DOMAIN Store
    /\ out = <<"Created showtime: [m3] Alien - 2030-01-01 17:00:00 UTC">>

(***************************************************************************)
(* C25                                                                     *)
(***************************************************************************)
\* what a showtime command gives when it is routed on its second token alone
RoutedOnSecond(e, order) ==
    LET args == Tokens(e)
    IN  IF Len(args) < 2 THEN Reply(Usage)
        ELSE IF args[2] = "-list" THEN listShowtimes(order)
        ELSE IF HasPrefix(args[2], "-delete") THEN deleteShowtime(args, e.nick)
        ELSE IF args[2] = "-create" THEN createShowtime(args, e.nick)
        ELSE Reply(Usage)

\* C25 as stated: an authorized sender's showtime command is routed on its
\* second token alone (-list lists, a token beginning with -delete deletes,
\* -create creates, anything else gives the usage message), and a line whose
\* second token is -create removes no showtime.
C25_Stated ==
    /\ [][ (ShowtimeLine(ev') /\ Authorized(ev'))
           => \E order \in ScanOrders :
                /\ out' = RoutedOnSecond(ev', order).out
                /\ showtimes' = RoutedOnSecond(ev', order).showtimes
                /\ table' = RoutedOnSecond(ev', order).table ]_vars
    /\ [][ ( /\ ShowtimeLine(ev') /\ Len(Tokens(ev')) >= 2
             /\ Tokens(ev')[2] = "-create" )
           => DOMAIN Store \subseteq IdsAfter ]_vars

(***************************************************************************)
(* C26                                                                     *)
(***************************************************************************)
Literals == {Prefix \o "showtime", Prefix \o "nextmovie", Prefix \o "date"}

\* C26 as stated: a line of the channel whose first token is not exactly a
\* command literal triggers no command: nothing is replied and the store is
\* left as it was.
C26_Stated ==
    /\ [] ( ( /\ ev.target = Channel
              /\ (Tokens(ev) = <<>> \/ Tokens(ev)[1] \notin Literals) )
            => out = <<>> )
    /\ [][ ( /\ ev'.target = Channel
             /\ (Tokens(ev') = <<>> \/ Tokens(ev')[1] \notin Literals) )
           => StoreUnchanged ]_vars

(***************************************************************************)
(* Create commands: the discrete fields                                    *)
(***************************************************************************)
\* the numeric fields: the options that set each, its range, its name in
\* the complaint
NumericFields ==
    { [options |-> {"-hour=", "-hours="}, lo |-> 0, hi |-> 23, name |-> "hour"],
      [options |-> {"-minute=", "-minutes="}, lo |-> 0, hi |-> 59, name |-> "minute"],
      [options |-> {"-second=", "-seconds=", "-sec="}, lo |-> 0, hi |-> 59,
       name |-> "second"],
      [options |-> {"-month="}, lo |-> 1, hi |-> 12, name |-> "month"],
      [options |-> {"-day="}, lo |-> 1, hi |-> 31, name |-> "day"],
      [options |-> {"-year="}, lo |-> 1900, hi |-> 2100, name |-> "year"] }

Complaint(field) ==
    "Invalid " \o field.name \o " value (must be " \o Itoa(field.lo) \o "-"
        \o Itoa(field.hi) \o ")."

\* token sets field to something that is not a number of its range
Offends(token, field) ==
    \E option \in field.options :
        /\ HasPrefix(token, option)
        /\ LET n == Atoi(ArgValue(token, option))
           IN  n.err \/ n.val < field.lo \/ n.val > field.hi

\* the places of the tokens of e that offend
Offences(e) ==
    {k \in 3..Len(Tokens(e)) : \E field \in NumericFields : Offends(Tokens(e)[k], field)}

\* the value the command gives to a field, or otherwise when it gives none
Given(e, option, otherwise) ==
    LET value == LastOption(Tokens(e), 3, option, "")
    IN  IF value = "" THEN otherwise ELSE Atoi(value).val

\* an authorized sender's create command with an id, a title, no -date and
\* no offending numeric field, met with a store that has not its id
Discrete(e) ==
    /\ CreateCommand(e) /\ Authorized(e)
    /\ CreateId(e) # "" /\ CreateTitle(e) # ""
    /\ CreateId(e) \notin DOMAIN Store
    /\ LastOption(Tokens(e), 3, "-date=", "") = ""
    /\ Offences(e) = {}

InvalidDateReply == "Invalid date (check month/day combination and leap year)."

(***************************************************************************)
(* C28                                                                     *)
(***************************************************************************)
\* C28: an authorized sender's create command in which a numeric field is
\* not a number or is out of range (hour 0-23, minute 0-59, second 0-59,
\* month 1-12, day 1-31, year 1900-2100) stores nothing and is answered
\* with the one message that names the field, the first such field of the
\* line, also when the id, the title and the other fields are valid.
C28_NumericFields ==
    [][ (CreateCommand(ev') /\ Authorized(ev') /\ Offences(ev') # {})
        => /\ StoreUnchanged
           /\ \E k \in Offences(ev') :
                /\ \A j \in Offences(ev') : k <= j
                /\ \E field \in NumericFields :
                    /\ Offends(Tokens(ev')[k], field)
                    /\ out' = <<Complaint(field)>> ]_vars

\* a command with a valid id, title, year, month and day and with -hours=24
\* was answered with the complaint about the hour; nothing is stored
C28_Witness ==
    /\ CreateCommand(ev)
    /\ CreateId(ev) = "m1" /\ CreateTitle(ev) = "Dune"
    /\ Given(ev, "-year=", 0) = 2028 /\ Given(ev, "-month=", 0) = 2
    /\ Given(ev, "-day=", 0) = 29
    /\ LastOption(Tokens(ev), 3, "-hours=", "") = "24"
    /\ Cardinality(Offences(ev)) = 1
    /\ out = <<"Invalid hour value (must be 0-23).">>
    /\ DOMAIN Store = {}


(***************************************************************************)
(* C29                                                                     *)
(***************************************************************************)
\* the days of a month of the calendar
LeapYear(y) == (y % 4 = 0 /\ y % 100 # 0) \/ y % 400 = 0

RealDate(y, m, d) ==
    /\ m \in 1..12 /\ d >= 1
    /\ d <= (IF m = 2 THEN (IF LeapYear(y) THEN 29 ELSE 28)
             ELSE IF m \in {4, 6, 9, 11} THEN 30 ELSE 31)

\* the year, month and day a command asks for: given, or of the clock's date
RequestedYear(e) == Given(e, "-year=", Fields(now).year)

RequestedMonth(e) == Given(e, "-month=", Fields(now).month)

RequestedDay(e) == Given(e, "-day=", Fields(now).day)

\* the step stores the showtime of the command on the day it asks for
StoresOnRequestedDay ==
    /\ CreateId(ev') \in IdsAfter
    /\ LET got == Fields(StoredAfter(CreateId(ev')).DateTime)
       IN  /\ got.year = RequestedYear(ev')
           /\ got.month = RequestedMonth(ev')
           /\ got.day = RequestedDay(ev')

\* C29: a create command by discrete fields whose year, month and day, given
\* or taken from the clock, are not a date of the calendar stores nothing and
\* is answered with the invalid-date message; one whose year, month and day
\* are a date of the calendar stores a showtime with exactly that year, month
\* and day.  So day 30 of February is refused in every year, day 31 of every
\* month of 30 days is refused, and day 29 of February is stored exactly in
\* leap years.
C29_CalendarDate ==
    [][ Discrete(ev')
        => IF RealDate(RequestedYear(ev'), RequestedMonth(ev'), RequestedDay(ev'))
           THEN StoresOnRequestedDay
           ELSE StoreUnchanged /\ out' = <<InvalidDateReply>> ]_vars

\* day 30 of February was refused; day 31 of April, taken from a clock that
\* shows day 31 of January, was refused; day 29 of February of a leap year
\* is stored
C29_Witness ==
    /\ Discrete(ev) \/ (CreateCommand(ev) /\ CreateId(ev) \in DOMAIN Store)
    /\ \/ /\ RequestedMonth(ev) = 2 /\ RequestedDay(ev) = 30
          /\ out = <<InvalidDateReply>> /\ DOMAIN Store = {}
       \/ /\ RequestedMonth(ev) = 4 /\ RequestedDay(ev) = 31
          /\ LastOption(Tokens(ev), 3, "-day=", "") = ""
          /\ out = <<InvalidDateReply>> /\ DOMAIN Store = {}
       \/ /\ RequestedMonth(ev) = 2 /\ RequestedDay(ev) = 29
          /\ RequestedYear(ev) = 2028
          /\ DOMAIN Store = {"m1"}
          /\ Fields(Store["m1"].DateTime).month = 2
          /\ Fields(Store["m1"].DateTime).day = 29

(***************************************************************************)
(* C30                                                                     *)
(***************************************************************************)
\* C30: a create command by discrete fields that stores a showtime stores it
\* at the given year, month and day, each taken from the clock's UTC date
\* when absent, and at the given hour, minute and second, each 0 when
\* absent, with no fraction of a second: a command with only an id, a title
\* and -hours=20 stores a showtime at 20:00:00 UTC of the clock's date.
C30_Defaults ==
    [][ (Discrete(ev') /\ CreateId(ev') \in IdsAfter)
        => StoredAfter(CreateId(ev')).DateTime
             = Date(RequestedYear(ev'), RequestedMonth(ev'), RequestedDay(ev'),
                    Given(ev', "-hours=", 0), Given(ev', "-minutes=", 0),
                    Given(ev', "-seconds=", 0)) ]_vars

\* a command with only an id, a title and -hours=20 stored a showtime at
\* 20:00:00 of the date of the clock, which shows another time of day
C30_Witness ==
    /\ ev # NoEvent
    /\ ev.message = Prefix \o "showtime -create -id=m1 -title=Dune -hours=20"
    /\ DOMAIN Store = {"m1"}
    /\ Fields(now).hour # 20 /\ Fields(now).min # 0 /\ Fields(now).sec # 0
    /\ LET got == Fields(Store["m1"].DateTime)
       IN  /\ got.year = Fields(now).year /\ got.month = Fields(now).month
           /\ got.day = Fields(now).day
           /\ got.hour = 20 /\ got.min = 0 /\ got.sec = 0
    /\ Store["m1"].DateTime % TicksPerSecond = 0


(***************************************************************************)
(* C24                                                                     *)
(***************************************************************************)
\* callback h is between mu.Lock() and mu.Unlock()
Holding(h) == handlers[h].pc \in {"run", "insert", "unlock"}

\* callback h has handled its command
Handled(h) == handlers[h].pc \in {"unlock", "done"}

\* callback h has handled a create command that stored a showtime
Created(h) ==
    /\ Handled(h)
    /\ Len(handlers[h].out) = 1
    /\ HasPrefix(handlers[h].out[1], "Created showtime: ")

\* the ids whose create has completed
Committed == {CreateId(handlers[h].e) : h \in {g \in Handlers : Created(g)}}

\* the callbacks that have handled a valid create command of id
CreatesOf(id) ==
    {h \in Handlers :
        /\ Handled(h)
        /\ CreateCommand(handlers[h].e) /\ Authorized(handlers[h].e)
        /\ CreateId(handlers[h].e) = id}

\* the reply to a list command when exactly the showtimes of ids are stored
Shows(lines, ids) ==
    IF ids = {} THEN lines = <<"No showtimes scheduled.">>
    ELSE /\ Len(lines) = 1 + Cardinality(ids)
         /\ lines[1] = "Scheduled showtimes:"
         /\ {lines[i] : i \in 2..Len(lines)} = {showtimeLine(Store[id]) : id \in ids}

\* between the check of a create and its insert the only steps are calls of
\* the callback for other events, which wait for the lock
OnlyCalls(h) ==
    \/ handlers'[h].pc = "unlock"
    \/ /\ UNCHANGED <<botVars, mu>>
       /\ \E g \in Handlers \ {h} :
            /\ handlers[g].pc = "idle"
            /\ handlers'[g].pc \in {"lock", "done"}
            /\ \A k \in Handlers \ {g} : handlers'[k] = handlers[k]

\* C24: when the callback runs for several channel messages at once, at most
\* one callback is between acquiring and releasing the handler lock; between
\* the check of a create and its insert no other command is handled and the
\* result of the check is still true at the insert; the stored showtimes are
\* exactly those whose create has completed, and a list of an authorized
\* sender shows exactly these; the creates of one id that have been handled
\* left one stored showtime, with one success reply and the duplicate-id reply
\* for every other.
C24_HandlerLock ==
    /\ [] ( /\ \A g, h \in Handlers : Holding(g) /\ Holding(h) => g = h
            /\ \A h \in Handlers :
                 handlers[h].pc = "insert"
                 => handlers[h].exists = (CreateId(handlers[h].e) \in DOMAIN Store)
            /\ DOMAIN Store = Committed
            /\ \A h \in Handlers :
                 ( /\ handlers[h].pc = "unlock"
                   /\ ListCommand(handlers[h].e) /\ Authorized(handlers[h].e) )
                 => Shows(handlers[h].out, Committed)
            /\ \A id \in {"m1"} :
                 CreatesOf(id) # {}
                 => /\ Cardinality({h \in CreatesOf(id) : Created(h)}) = 1
                    /\ id \in DOMAIN Store
                    /\ \A h \in CreatesOf(id) :
                         IF Created(h)
                         THEN Store[id].CreatedBy = handlers[h].e.nick
                         ELSE handlers[h].out = <<DuplicateReply(id)>> )
    /\ [][ \A h \in Handlers : handlers[h].pc = "insert" => OnlyCalls(h) ]_vars

\* two callbacks have handled creates of m1 by alice and by bob that were
\* running at once: one was answered with the success reply, the other with
\* the duplicate-id reply, and m1 is stored once
C24_Witness ==
    /\ handlers[1].pc = "done" /\ handlers[2].pc = "unlock"
    /\ CreatesOf("m1") = {1, 2}
    /\ handlers[1].e.nick # handlers[2].e.nick
    /\ Created(1)
    /\ handlers[2].out = <<DuplicateReply("m1")>>
    /\ DOMAIN Store = {"m1"}
    /\ Store["m1"].CreatedBy = handlers[1].e.nick


(***************************************************************************)
(* C27                                                                     *)
(***************************************************************************)
\* a line of the channel that the callback takes for a command
DateLine(e) == e.target = Channel /\ HasPrefix(e.message, Prefix \o "date")

HandledLine(e) == ShowtimeLine(e) \/ NextMovieLine(e) \/ DateLine(e)

\* the reply is the header and then exactly one line for every stored
\* showtime
HeaderAndLines ==
    /\ Len(out') = 1 + Cardinality(DOMAIN Store)
    /\ out'[1] = "Scheduled showtimes:"
    /\ \A id \in DOMAIN Store :
         Cardinality({i \in 2..Len(out') : out'[i] = showtimeLine(Store[id])}) = 1

\* C27: every line of the channel that the callback takes for a command is
\* answered with exactly one line, whatever the path (success, usage,
\* validation, duplicate, not found, not the creator, not authorized, an
\* error of the store, nextmovie, date), except a list command of an
\* authorized sender that meets a store that is not empty and no error, which
\* is answered with the header and then one line for every stored showtime;
\* no such line is left without a reply.
C27_OneReply ==
    [][ HandledLine(ev')
        => IF ListCommand(ev') /\ Authorized(ev') /\ fault' = ""
              /\ DOMAIN Store # {}
           THEN HeaderAndLines
           ELSE Len(out') = 1 ]_vars

\* the insert of a create command failed: the only reply is the message of
\* that error and nothing is stored under the id
C27_Witness ==
    /\ fault = "insertShowtime"
    /\ CreateCommand(ev) /\ Authorized(ev)
    /\ out = <<"Error creating showtime.">>
    /\ CreateId(ev) \notin DOMAIN Store
    /\ DOMAIN Store # {}


(***************************************************************************)
(* C34                                                                     *)
(***************************************************************************)
\* s is, of the stored showtimes with the smallest datetime greater than
\* now, the one with the smallest id
FirstNearest(s) ==
    Nearest(s) /\ \A t \in Future : Nearest(t) => ~TextLess(t.ID, s.ID)

\* C34 as stated: when nextmovie reports an upcoming showtime and two or more
\* stored showtimes share the smallest datetime greater than now, the one
\* reported is the one of them with the smallest id.
C34_Stated ==
    ( /\ NextMovieLine(ev) /\ fault = ""
      /\ ReportsUpcoming
      /\ Cardinality({s \in Future : Nearest(s)}) >= 2 )
    => \E s \in Future : FirstNearest(s) /\ out = <<UpcomingReply(s)>>

(***************************************************************************)
(* C35                                                                     *)
(***************************************************************************)
ReportsCurrent ==
    /\ Len(out) = 1
    /\ \E s \in Stored : HasSuffix(out[1], " into " \o s.Title)

\* C35 as stated: in the in-memory build the title in the reply to nextmovie
\* is the title of the showtime whose datetime gave the duration in that
\* reply: the reply about an upcoming showtime is made of the duration until
\* and the title of one stored showtime that starts after now, the reply
\* about a current one of the duration since and the title of one stored
\* showtime that has started.
C35_Stated ==
    (bot = "mem" /\ NextMovieLine(ev))
    => /\ ReportsUpcoming => \E s \in Future : out = <<UpcomingReply(s)>>
       /\ ReportsCurrent => \E s \in Past : out = <<CurrentReply(s)>>


(***************************************************************************)
(* C36                                                                     *)
(***************************************************************************)
\* the reply is one of the two usage messages of the showtime command
UsageReply(lines) == Len(lines) = 1 /\ HasPrefix(lines[1], "Usage: ")

\* C36: a step that handles a list, a nextmovie or a date command, or a
\* showtime command that is answered with a usage message, leaves the stored
\* showtimes and all their fields as they were, for every sender, every
\* store and also when a call of the store fails.
C36_ReadOnly ==
    [][ ( \/ ListCommand(ev') \/ NextMovieLine(ev') \/ DateLine(ev')
          \/ (ShowtimeLine(ev') /\ UsageReply(out')) )
        => StoreUnchanged ]_vars

\* a list line that also carries a -delete token of a stored showtime, sent
\* by its creator, was answered with the listing and the showtime is kept
C36_Witness ==
    /\ ListCommand(ev) /\ HasDeleteToken(ev) /\ Authorized(ev)
    /\ "m1" \in DOMAIN Store
    /\ Store["m1"].CreatedBy = ev.nick
    /\ Len(out) >= 2
    /\ out[1] = "Scheduled showtimes:"


(***************************************************************************)
(* C33                                                                     *)
(***************************************************************************)
\* the step stores one showtime under an id that was absent and keeps the
\* others as they were
InsertsOne ==
    \E id \in IdsAfter \ DOMAIN Store :
        /\ IdsAfter = DOMAIN Store \cup {id}
        /\ \A k \in DOMAIN Store : EntryKept(k)

\* the step removes one showtime and keeps the others as they were
RemovesOne ==
    \E id \in DOMAIN Store \ IdsAfter :
        /\ IdsAfter = DOMAIN Store \ {id}
        /\ \A k \in IdsAfter : EntryKept(k)

\* C33: every step leaves the store as it was, or stores exactly one
\* showtime under an id that was absent, or removes exactly one showtime;
\* in each case every other stored showtime keeps its title, datetime and
\* creator, so a showtime is the same from its creation to its deletion.
C33_Frame == [][ StoreUnchanged \/ InsertsOne \/ RemovesOne ]_vars

\* m1 was deleted by its creator from a store of three showtimes; m2 and m3
\* are still stored
C33_Witness ==
    /\ DeleteCommand(ev)
    /\ out = <<"Deleted showtime: m1">>
    /\ DOMAIN Store = {"m2", "m3"}


(***************************************************************************)
(* C31                                                                     *)
(***************************************************************************)
\* C31 as stated: in the database build a date command that comes in while
\* a call of the store made for an earlier command has not returned does
\* not wait for that call: the lock is free for it, so that it is answered
\* also when the call never returns.
C31_Stated ==
    \A g, h \in Handlers :
        ( /\ bot = "db"
          /\ handlers[h].pc = "lock" /\ DateLine(handlers[h].e)
          /\ awaitsStore(g) )
        => canLock(h)

(***************************************************************************)
(* C32                                                                     *)
(***************************************************************************)
\* callback h can take a step: it has not been called, or it waits for a
\* lock that is free, or it is between Lock and Unlock
CanStep(h) ==
    \/ handlers[h].pc = "idle"
    \/ handlers[h].pc = "lock" /\ canLock(h)
    \/ Holding(h)

\* C32: whatever the outcome of a command (a validation error, a duplicate,
\* not-found or not-creator reply, a refusal, an error of the store), a
\* callback that has returned does not hold the handler lock, the lock is
\* held only by a callback that is between Lock and Unlock, and as long as
\* a line is not handled to the end some callback can take a step, so the
\* line that comes next is handled; a step in which a call of the store
\* fails sends one reply, the error message of that call, and leaves the
\* store unchanged.
C32_NoOutcomeStops ==
    /\ [] ( /\ \A h \in Handlers : ~Holding(h) => mu # h
            /\ mu # 0 => mu \in Handlers /\ Holding(mu)
            /\ (\E h \in Handlers : handlers[h].pc # "done")
               => \E h \in Handlers : CanStep(h) )
    /\ [][ fault' # ""
           => /\ StoreUnchanged
              /\ Len(out') = 1 /\ HasPrefix(out'[1], "Error ") ]_vars

\* the insert of alice's create failed and its callback has returned; bob's
\* create of the same id, waiting behind it, was then handled and stored
C32_Witness ==
    /\ handlers[1].pc = "done" /\ handlers[1].e.nick = "alice"
    /\ handlers[1].out = <<"Error creating showtime.">>
    /\ handlers[2].pc = "done" /\ handlers[2].e.nick = "bob"
    /\ Created(2)
    /\ mu = 0
    /\ DOMAIN Store = {"m1"} /\ Store["m1"].CreatedBy = "bob"

====
